---- MODULE Spec2Model ----
(***************************************************************************)
(* Order service: the create-order transaction of ordersService.create,    *)
(* the read paths (get-order, get-order-summary, get-product) and the      *)
(* PostgreSQL store they run against.                                      *)
(* The rate service: fetchCnbRates with its timer and the rate source it   *)
(* talks to, parseRatesText and convertFromCzk.                            *)
(*                                                                         *)
(* Store semantics.  ordersService.create runs its statements in           *)
(* prisma.$transaction(callback) with no isolationLevel option, i.e. at    *)
(* PostgreSQL's default READ COMMITTED: every statement sees the rows      *)
(* committed when the statement starts plus the transaction's own writes;  *)
(* writes become visible to others at commit and vanish on rollback; an    *)
(* UPDATE locks the row until the transaction ends and is applied to the   *)
(* latest committed version of the row.  Reads through the plain `prisma`  *)
(* client are single autocommit statements.                                *)
(*                                                                         *)
(* Numbers.  Money and the VAT rate are JS numbers with two decimals; they *)
(* are modelled as integer hundredths (333.33 CZK = 33333, 0.21 = 21).     *)
(* Decimal columns are modelled as [units, frac] pairs.                    *)
(***************************************************************************)
EXTENDS Integers, Sequences, FiniteSets, TLC

\* ------------------------------------------------------------------ bounds
NumRequests == 2
InitStock == 5
MaxQty == 3
NumCalls == 2
TicksPerTimeout == 2
MaxTicks == 5
MaxLines == 4

\* -------------------------------------------------------- program constants
DEFAULT_VAT_RATE == 21

\* createOrderSchema: quantity .max(1000)
MAX_ORDER_QUANTITY == 1000

\* the fetch timeout and the freshness window of the rate table, in ms
FETCH_TIMEOUT_MS == 10000

FRESHNESS_WINDOW_MS == 3600000

\* test data: unit prices 333.33 and 1990.00 CZK in hundredths
InitPrice == 33333

NewPrice == 199000

\* concurrent HTTP requests
Requests == 1..NumRequests

\* the products table holds one product, as in the integration tests
ProductIds == {1}

\* product ids a request may name: the product and an id that names nothing
RequestedIds == {1, 2}

Quantities == 1..MaxQty

\* order ids a read may name: every id the sequence can hand out
OrderIds == 1..NumRequests

\* calls of fetchCnbRates
Calls == 1..NumCalls

\* null / undefined; a nullable number n is carried as Some(n)
Null == [null |-> TRUE]

Some(n) == [value |-> n]

\* ------------------------------------------------------------------ errors
\* mutant: the 404 error class built with the wrong status
NotFoundErrorAsBadRequest ==
  [name |-> "NotFoundError", statusCode |-> 400, code |-> "NOT_FOUND"]

NotFoundError == [name |-> "NotFoundError", statusCode |-> 404, code |-> "NOT_FOUND"]

ValidationError ==
  [name |-> "ValidationError", statusCode |-> 400, code |-> "VALIDATION_ERROR"]

\* the message carries the available and the requested quantity
ConflictError(available, requested) ==
  [name |-> "ConflictError", statusCode |-> 409, code |-> "CONFLICT",
   available |-> available, requested |-> requested]

\* what a handler resolved to when it did not reject
Created == [name |-> "Created"]

\* err instanceof ApiError: the classes that extend ApiError
ApiErrorClasses ==
  {"ApiError", "ValidationError", "NotFoundError", "ConflictError",
   "InternalError"}

isApiError(err) == err.name \in ApiErrorClasses

errorHandler(err) ==
  IF isApiError(err) THEN [status |-> err.statusCode, code |-> err.code]
  ELSE IF err.name = "PrismaClientKnownRequestError"
       THEN [status |-> 500, code |-> "DATABASE_ERROR"]
       ELSE [status |-> 500, code |-> "INTERNAL_ERROR"]

VARIABLES
  products,     \* committed product rows: id -> [priceCzk, quantity]
  orders,       \* committed order rows
  nextOrderId,  \* the orders id sequence (never rolled back)
  rowLock,      \* product id -> request whose transaction holds the row lock, 0 if none
  pc,           \* request -> position in its handler
  input,        \* request -> what the request asks for
  product,      \* create-order: result of tx.product.findUnique
  createdOrder, \* create-order: result of tx.order.create (uncommitted until Commit)
  updated,      \* create-order: result of tx.product.update (uncommitted until Commit)
  result,       \* request -> what the service call resolved to or threw
  response,     \* request -> HTTP response
  fetchCalls    \* request -> calls of fetchCnbRates its handler has made

\* the calls of fetchCnbRates and the rate source they talk to
VARIABLES
  now,          \* the clock, in ms
  fpc,          \* call -> position in fetchCnbRates
  timer,        \* call -> deadline of the armed setTimeout, Null if none
  received,     \* call -> parity of the body chunks the source has sent
  issuedAt,     \* call -> when the source got the call's request, Null if never
  fresult       \* call -> what the call resolved to

orderVars == <<products, orders, nextOrderId, rowLock, pc, input, product,
               createdOrder, updated, result, response, fetchCalls>>

fetchVars == <<now, fpc, timer, received, issuedAt, fresult>>

\* the last call of convertFromCzk: its arguments and what it returned
VARIABLES conversion

\* the last calls of the VAT utilities (the input of calculateVatBreakdown,
\* what it returned, and what calculatePriceBeforeVat returned for its
\* total) and the last call of parseRatesText (the text and the rates)
VARIABLES vat, parsed

pureVars == <<conversion, vat, parsed>>

rateVars == <<fetchVars, pureVars, fetchCalls>>

vars == <<orderVars, fetchVars, conversion, vat, parsed>>

\* ----------------------------------------------------------- conversions
\* number -> Decimal column (Prisma converts numbers to Decimal on write)
ToDecimal(n) == [units |-> n \div 100, frac |-> n % 100]

\* Number(decimal)
Number(d) == d.units * 100 + d.frac

\* ------------------------------------------------------------ VAT utilities
\* Math.round(x) for x = n / d with d > 0: round half up
RoundDiv(n, d) == (2 * n + d) \div (2 * d)

\* A JS number: a finite number is the fraction n / d (d > 0), the others
\* are NaN, Infinity and -Infinity
Fin(n, d) == [n |-> n, d |-> d]

NaN == [nan |-> TRUE]

Infinity(sign) == [inf |-> sign]

isFinite(x) == "n" \in DOMAIN x

isNaN(x) == "nan" \in DOMAIN x

\* the sign of a number that is not NaN
Sign(x) ==
  IF isFinite(x) THEN (IF x.n > 0 THEN 1 ELSE IF x.n < 0 THEN -1 ELSE 0)
  ELSE x.inf

\* a * b
Mul(a, b) ==
  IF isNaN(a) \/ isNaN(b) THEN NaN
  ELSE IF isFinite(a) /\ isFinite(b) THEN Fin(a.n * b.n, a.d * b.d)
  ELSE IF Sign(a) * Sign(b) = 0 THEN NaN
  ELSE Infinity(Sign(a) * Sign(b))

\* a + b
Add(a, b) ==
  IF isNaN(a) \/ isNaN(b) THEN NaN
  ELSE IF isFinite(a) /\ isFinite(b)
       THEN IF a.d = b.d THEN Fin(a.n + b.n, a.d)
            ELSE Fin(a.n * b.d + b.n * a.d, a.d * b.d)
  ELSE IF ~isFinite(a) /\ ~isFinite(b) /\ a.inf # b.inf THEN NaN
  ELSE IF isFinite(a) THEN b ELSE a

\* a / b
Div(a, b) ==
  IF isNaN(a) \/ isNaN(b) THEN NaN
  ELSE IF isFinite(a) /\ isFinite(b)
       THEN IF b.n > 0 THEN Fin(a.n * b.d, a.d * b.n)
            ELSE IF b.n < 0 THEN Fin(-(a.n * b.d), a.d * (-b.n))
            ELSE IF a.n = 0 THEN NaN ELSE Infinity(Sign(a))
  ELSE IF ~isFinite(a) /\ ~isFinite(b) THEN NaN
  ELSE IF isFinite(a) THEN Fin(0, 1)
  ELSE Infinity(Sign(a) * (IF Sign(b) < 0 THEN -1 ELSE 1))

\* Math.round(value * 100) / 100
roundToTwoDecimals(value) ==
  IF ~isFinite(value) THEN value
  ELSE IF value.d % 100 = 0 THEN Fin(RoundDiv(value.n, value.d \div 100), 100)
  ELSE Fin(RoundDiv(100 * value.n, value.d), 100)

sanitizePrice(price) ==
  IF ~isFinite(price) \/ price.n < 0 THEN Fin(0, 1) ELSE price

\* Math.max(0, Math.round(quantity))
sanitizeQuantity(quantity) ==
  IF ~isFinite(quantity) \/ quantity.n < 0 THEN Fin(0, 1)
  ELSE Fin(RoundDiv(quantity.n, quantity.d), 1)

\* mutant: rounding is applied once, at the end
calculateVatBreakdownRoundedAtEnd(vatInput) ==
  LET unitPrice == sanitizePrice(vatInput.unitPriceCzk)
      quantity == sanitizeQuantity(vatInput.quantity)
      vatRate == IF vatInput.vatRate = Null THEN Fin(DEFAULT_VAT_RATE, 100)
                 ELSE vatInput.vatRate
      subtotalCzk == Mul(unitPrice, quantity)
      vatAmountCzk == Mul(subtotalCzk, vatRate)
      totalCzk == Add(subtotalCzk, vatAmountCzk)
  IN [subtotalCzk |-> roundToTwoDecimals(subtotalCzk),
      vatAmountCzk |-> roundToTwoDecimals(vatAmountCzk),
      totalCzk |-> roundToTwoDecimals(totalCzk), vatRate |-> vatRate]

\* vatInput: [unitPriceCzk, quantity, vatRate], vatRate Null when not supplied
calculateVatBreakdown(vatInput) ==
  LET unitPrice == sanitizePrice(vatInput.unitPriceCzk)
      quantity == sanitizeQuantity(vatInput.quantity)
      vatRate == IF vatInput.vatRate = Null THEN Fin(DEFAULT_VAT_RATE, 100)
                 ELSE vatInput.vatRate
      subtotalCzk == roundToTwoDecimals(Mul(unitPrice, quantity))
      vatAmountCzk == roundToTwoDecimals(Mul(subtotalCzk, vatRate))
      totalCzk == roundToTwoDecimals(Add(subtotalCzk, vatAmountCzk))
  IN [subtotalCzk |-> subtotalCzk, vatAmountCzk |-> vatAmountCzk,
      totalCzk |-> totalCzk, vatRate |-> vatRate]

\* mutant: the price is divided by the rate alone
calculatePriceBeforeVatByRate(priceWithVat, vatRate) ==
  LET sanitizedPrice == sanitizePrice(priceWithVat)
  IN roundToTwoDecimals(Div(sanitizedPrice, vatRate))

calculatePriceBeforeVat(priceWithVat, vatRate) ==
  LET sanitizedPrice == sanitizePrice(priceWithVat)
  IN roundToTwoDecimals(Div(sanitizedPrice, Add(Fin(1, 1), vatRate)))

\* a finite amount of whole hundredths as a number of hundredths
Hundredths(x) == (x.n * 100) \div x.d

\* the call in ordersService.create: unitPriceCzk in hundredths, quantity a
\* whole number, vatRate in hundredths; the breakdown in hundredths
VatBreakdownOf(unitPriceCzk, quantity, vatRate) ==
  LET b == calculateVatBreakdown([unitPriceCzk |-> Fin(unitPriceCzk, 100),
                                  quantity |-> Fin(quantity, 1),
                                  vatRate |-> Fin(vatRate, 100)])
  IN [subtotalCzk |-> Hundredths(b.subtotalCzk),
      vatAmountCzk |-> Hundredths(b.vatAmountCzk),
      totalCzk |-> Hundredths(b.totalCzk),
      vatRate |-> Hundredths(b.vatRate)]

\* ------------------------------------------------------------------ store
RECURSIVE SumQuantity(_)
SumQuantity(S) ==
  IF S = {} THEN 0
  ELSE LET o == CHOOSE x \in S : TRUE IN o.quantity + SumQuantity(S \ {o})

OrdersOf(p) == {o \in orders : o.productId = p}

OrdersBy(r) == {o \in orders : o.customer = r}

\* product.findUnique({where: {id}}): the committed row, or null
FindProduct(id) ==
  IF id \in ProductIds THEN [id |-> id] @@ products[id] ELSE Null

\* order.findUnique({where: {id}, include: {product}}): the committed row
\* with its product, or null
FindOrder(id) ==
  IF \E o \in orders : o.id = id
  THEN LET row == CHOOSE o \in orders : o.id = id
       IN [row |-> row, product |-> FindProduct(row.productId)]
  ELSE Null

Init ==
  /\ products = [p \in ProductIds |->
                   [priceCzk |-> ToDecimal(InitPrice), quantity |-> InitStock]]
  /\ orders = {}
  /\ nextOrderId = 1
  /\ rowLock = [p \in ProductIds |-> 0]
  /\ pc = [r \in Requests |-> "idle"]
  /\ input = [r \in Requests |-> Null]
  /\ product = [r \in Requests |-> Null]
  /\ createdOrder = [r \in Requests |-> Null]
  /\ updated = [r \in Requests |-> Null]
  /\ result = [r \in Requests |-> Null]
  /\ response = [r \in Requests |-> Null]
  /\ fetchCalls = [r \in Requests |-> 0]
  /\ now = 0
  /\ fpc = [c \in Calls |-> "idle"]
  /\ timer = [c \in Calls |-> Null]
  /\ received = [c \in Calls |-> 0]
  /\ issuedAt = [c \in Calls |-> Null]
  /\ fresult = [c \in Calls |-> Null]
  /\ conversion = Null
  /\ vat = Null
  /\ parsed = Null

\* ------------------------------------------------------------- CNB rates
SUPPORTED_CURRENCIES == <<"EUR", "USD", "PLN">>

\* A response body is a sequence of lines; a line is given by what
\* line.split('|') yields: the number of parts, the code (parts[3]) and the
\* values parseInt(parts[2]) and parseFloat(parts[4]) with Null for NaN.
\* A rate is CZK per unit in thousandths (24.725 = 24725).
Line(parts, code, amount, rate) ==
  [parts |-> parts, code |-> code, amount |-> amount, rate |-> rate]

\* a daily rate sheet: date line, header line, then data rows of which one
\* is of a currency not supported, one has an unreadable rate, one has
\* amount 0 and one is cut short
RateSheet ==
  << Line(1, "", Null, Null),
     Line(5, "kod", Null, Null),
     Line(5, "AUD", Some(1), Some(15100)),
     Line(5, "EUR", Some(1), Some(24725)),
     Line(5, "USD", Some(1), Null),
     Line(5, "PLN", Some(0), Some(5400)),
     Line(5, "PLN", Some(1), Some(5500)),
     Line(3, "", Some(1), Null) >>

\* a body that is not a rate sheet (an HTML page): no line has five parts
NoRateSheet ==
  << Line(1, "", Null, Null), Line(1, "", Null, Null), Line(1, "", Null, Null),
     Line(2, "", Null, Null) >>

\* mutant: a row of a supported currency that cannot be used clears the
\* currency's entry
parseRowClearing(rates, line) ==
  IF line.parts < 5 THEN rates
  ELSE IF \A k \in 1..Len(SUPPORTED_CURRENCIES) : SUPPORTED_CURRENCIES[k] # line.code
  THEN rates
  ELSE IF line.amount = Null \/ line.rate = Null \/ line.amount.value = 0
  THEN [rates EXCEPT ![line.code] = Null]
  ELSE [rates EXCEPT ![line.code] = Some(line.rate.value \div line.amount.value)]

\* the body of the loop: what one line does to the rates; rate / amount is
\* taken in thousandths
parseRow(rates, line) ==
  IF line.parts < 5 THEN rates
  ELSE IF \A k \in 1..Len(SUPPORTED_CURRENCIES) : SUPPORTED_CURRENCIES[k] # line.code
  THEN rates
  ELSE IF line.amount = Null \/ line.rate = Null \/ line.amount.value = 0
  THEN rates
  ELSE [rates EXCEPT ![line.code] = Some(line.rate.value \div line.amount.value)]

\* parseRatesText: never throws; rows it cannot use are skipped
parseRatesText(text) ==
  LET RECURSIVE parse(_, _)
      parse(i, rates) ==
        IF i > Len(text) THEN rates
        ELSE parse(i + 1, parseRow(rates, text[i]))
  IN parse(3, [EUR |-> Null, USD |-> Null, PLN |-> Null])

\* ---- the text as characters.  A payload is a sequence of lines (what
\* split('\n') yields), a line a sequence of fields (what split('|')
\* yields), a field a sequence of characters.
Digit ==
  ("0" :> 0) @@ ("1" :> 1) @@ ("2" :> 2) @@ ("3" :> 3) @@ ("4" :> 4) @@
  ("5" :> 5) @@ ("6" :> 6) @@ ("7" :> 7) @@ ("8" :> 8) @@ ("9" :> 9)

\* the number of digits str starts with
RECURSIVE LeadingDigits(_)
LeadingDigits(str) ==
  IF str # <<>> /\ Head(str) \in DOMAIN Digit THEN 1 + LeadingDigits(Tail(str))
  ELSE 0

\* the value of a sequence of digits
RECURSIVE DigitsValue(_)
DigitsValue(str) ==
  IF str = <<>> THEN 0
  ELSE 10 * DigitsValue(SubSeq(str, 1, Len(str) - 1)) + Digit[str[Len(str)]]

\* String.prototype.trim
RECURSIVE trim(_)
trim(str) ==
  IF str # <<>> /\ Head(str) = " " THEN trim(Tail(str))
  ELSE IF str # <<>> /\ str[Len(str)] = " " THEN trim(SubSeq(str, 1, Len(str) - 1))
  ELSE str

\* mutant: the decimal comma is left in place
replaceCommaNever(str) == str

\* str.replace(',', '.'): the first comma becomes a point
replaceComma(str) ==
  IF \E i \in 1..Len(str) : str[i] = ","
  THEN LET first == CHOOSE i \in 1..Len(str) :
                      str[i] = "," /\ \A j \in 1..(i - 1) : str[j] # ","
       IN [str EXCEPT ![first] = "."]
  ELSE str

\* a sign character at the start of str: -1, 1, or 0 for none
SignOf(str) ==
  IF str # <<>> /\ Head(str) = "-" THEN -1
  ELSE IF str # <<>> /\ Head(str) = "+" THEN 1 ELSE 0

\* parseInt(str, 10): the digits str starts with after an optional sign;
\* Null is NaN
parseInt(str) ==
  LET body == IF SignOf(str) # 0 THEN Tail(str) ELSE str
      n == LeadingDigits(body)
  IN IF n = 0 THEN Null
     ELSE Some((IF SignOf(str) = -1 THEN -1 ELSE 1) * DigitsValue(SubSeq(body, 1, n)))

\* parseFloat(str): the longest prefix sign digits [. digits] with at least
\* one digit, in thousandths (digits beyond the third decimal are not
\* carried); Null is NaN
parseFloat(str) ==
  LET body == IF SignOf(str) # 0 THEN Tail(str) ELSE str
      n == LeadingDigits(body)
      rest == SubSeq(body, n + 1, Len(body))
      fraction == IF rest # <<>> /\ Head(rest) = "." THEN Tail(rest) ELSE <<>>
      m == LeadingDigits(fraction)
      decimals == SubSeq(fraction \o <<"0", "0", "0">>, 1, 3)
      shown == IF m >= 3 THEN decimals
               ELSE SubSeq(fraction, 1, m) \o SubSeq(<<"0", "0", "0">>, 1, 3 - m)
  IN IF n + m = 0 THEN Null
     ELSE Some((IF SignOf(str) = -1 THEN -1 ELSE 1)
               * (1000 * DigitsValue(SubSeq(body, 1, n)) + DigitsValue(shown)))

\* the supported currency the characters spell, "" if none
CodeOf(str) ==
  IF str = <<"E", "U", "R">> THEN "EUR"
  ELSE IF str = <<"U", "S", "D">> THEN "USD"
  ELSE IF str = <<"P", "L", "N">> THEN "PLN"
  ELSE ""

\* what the loop reads from one line: the number of parts, the code, the
\* amount and the rate
ReadLine(fields) ==
  IF Len(fields) < 5 THEN Line(Len(fields), "", Null, Null)
  ELSE Line(Len(fields), CodeOf(trim(fields[4])), parseInt(trim(fields[3])),
            parseFloat(replaceComma(trim(fields[5]))))

\* a line without characters
BlankLine == << <<>> >>

\* text.trim().split('\n'): the blank lines at both ends are gone
RECURSIVE TrimLines(_)
TrimLines(payload) ==
  IF payload # <<>> /\ Head(payload) = BlankLine THEN TrimLines(Tail(payload))
  ELSE IF payload # <<>> /\ payload[Len(payload)] = BlankLine
       THEN TrimLines(SubSeq(payload, 1, Len(payload) - 1))
  ELSE payload

\* the lines of a payload as the loop reads them
ReadLines(payload) ==
  LET lines == TrimLines(payload) IN [i \in 1..Len(lines) |-> ReadLine(lines[i])]

\* lines of a daily sheet
DateLine == << <<"0", "2", ".", "0", "1", ".", "2", "0", "2", "4", " ", "#", "1">> >>

EurRow ==
  << <<"E", "M", "U">>, <<"e", "u", "r", "o">>, <<"1">>, <<"E", "U", "R">>,
     <<"2", "4", ",", "7", "2", "5">> >>

\* 100 units quoted at 2500, with blanks around the fields
EurRow100 ==
  << <<"E", "M", "U">>, <<"e", "u", "r", "o">>, <<" ", "1", "0", "0">>,
     <<" ", "E", "U", "R", " ">>, <<"2", "5", "0", "0">> >>

EurBadRate ==
  << <<"E", "M", "U">>, <<"e", "u", "r", "o">>, <<"1">>, <<"E", "U", "R">>,
     <<"n", "/", "a">> >>

PlnRow ==
  << <<"P", "L">>, <<"z", "l">>, <<"1">>, <<"P", "L", "N">>, <<"5", ",", "5">> >>

PlnZero ==
  << <<"P", "L">>, <<"z", "l">>, <<"0">>, <<"P", "L", "N">>, <<"5", ",", "4">> >>

UsdBadAmount ==
  << <<"U", "S", "A">>, <<"d", "o", "l", "a", "r">>, <<"x">>, <<"U", "S", "D">>,
     <<"2", "2", ",", "5">> >>

AudRow ==
  << <<"A", "U">>, <<"d", "o", "l", "a", "r">>, <<"1">>, <<"A", "U", "D">>,
     <<"1", "5", ",", "1">> >>

ShortRow == << <<"E", "U", "R">>, <<"1">>, <<"2", "4", ",", "7", "2", "5">> >>

PayloadLines ==
  {DateLine, BlankLine, EurRow, EurRow100, EurBadRate, PlnRow, PlnZero,
   UsdBadAmount, AudRow, ShortRow}

\* the payloads: up to MaxLines lines
Payloads == UNION {[1..n -> PayloadLines] : n \in 0..MaxLines}

\* parseRatesText is called with a payload; one call is followed
Parse(payload) ==
  /\ parsed = Null
  /\ parsed' = [payload |-> payload, rates |-> parseRatesText(ReadLines(payload))]
  /\ UNCHANGED <<orderVars, fetchVars, conversion, vat>>

NextParse == parsed = Null /\ \E payload \in Payloads : Parse(payload)

SpecParse == Init /\ [][NextParse]_vars

\* what the rate source does with one request, seen from fetch():
\* a response (status line, then the body), a rejection (network error), or
\* nothing within the timeout, which makes the abort signal reject fetch()
Responds(status, text) == [kind |-> "response", status |-> status, text |-> text]

Rejects(message) == [kind |-> "reject", message |-> message]

SourceBehaviours ==
  { Responds(200, RateSheet), Responds(200, NoRateSheet),
    Responds(503, NoRateSheet),
    Rejects("fetch failed"), Rejects("This operation was aborted") }

\* the three return statements of fetchCnbRates; an error message is its
\* fixed text and the value interpolated into it
FetchSuccess(rates) == [success |-> TRUE, rates |-> rates, error |-> Null]

FetchStatusFailure(status) ==
  [success |-> FALSE, rates |-> Null,
   error |-> Some(<<"CNB API returned status ", status>>)]

\* mutant: the catch block drops the cause
FetchCaughtFailureWithoutCause(errorMessage) ==
  [success |-> FALSE, rates |-> Null, error |-> Null]

FetchCaughtFailure(errorMessage) ==
  [success |-> FALSE, rates |-> Null,
   error |-> Some(<<"Failed to fetch rates: ", errorMessage>>)]

\* fetchCnbRates as a function of what the source does: what it resolves to
fetchCnbRates(behaviour) ==
  IF behaviour.kind = "reject" THEN FetchCaughtFailure(behaviour.message)
  ELSE IF ~(behaviour.status >= 200 /\ behaviour.status <= 299)
       THEN FetchStatusFailure(behaviour.status)
       ELSE FetchSuccess(parseRatesText(behaviour.text))

\* the results the order handlers are run with: a failed fetch and a fetch
\* of the rate sheet
FetchResults ==
  { fetchCnbRates(Rejects("fetch failed")),
    fetchCnbRates(Responds(200, RateSheet)) }

\* every result fetchCnbRates can resolve to
AllFetchResults == {fetchCnbRates(b) : b \in SourceBehaviours}

RateOf(rates, code) == IF rates = Null THEN Null ELSE rates[code]

\* mutant: any rate table at all counts as a successful conversion
convertFromCzkAvailableWithTable(amountCzk, rates) ==
  LET conv(code) ==
        LET rate == RateOf(rates, code) IN
        IF rate # Null /\ rate.value > 0
        THEN [code |-> code, amount |-> Some(RoundDiv(amountCzk * 1000, rate.value))]
        ELSE [code |-> code, amount |-> Null]
      conversions == [i \in 1..Len(SUPPORTED_CURRENCIES) |->
                        conv(SUPPORTED_CURRENCIES[i])]
  IN [originalCzk |-> amountCzk,
      fxAvailable |-> rates # Null,
      conversions |-> conversions]

\* amountCzk in hundredths; converted amounts in hundredths, Null when the
\* rate is unavailable
convertFromCzk(amountCzk, rates) ==
  LET conv(code) ==
        LET rate == RateOf(rates, code) IN
        IF rate # Null /\ rate.value > 0
        THEN [code |-> code, amount |-> Some(RoundDiv(amountCzk * 1000, rate.value))]
        ELSE [code |-> code, amount |-> Null]
      conversions == [i \in 1..Len(SUPPORTED_CURRENCIES) |->
                        conv(SUPPORTED_CURRENCIES[i])]
  IN [originalCzk |-> amountCzk,
      fxAvailable |-> \E i \in 1..Len(conversions) : conversions[i].amount # Null,
      conversions |-> conversions]

\* amounts in hundredths a caller converts: 0, 0.01, 1000.00, 1209.99
ConvertedAmounts == {0, 1, 100000, 120999}

\* a rate as parseRatesText can leave it: absent, zero, or a rate
RateValues == {Null, Some(0), Some(5500), Some(24725)}

\* the rate tables: null and every table over the supported currencies
RateTables ==
  {Null} \cup [{"EUR", "USD", "PLN"} -> RateValues]

\* a caller converts an amount with a rate table
Convert(amountCzk, rates) ==
  /\ conversion' = [amountCzk |-> amountCzk, rates |-> rates,
                    result |-> convertFromCzk(amountCzk, rates)]
  /\ UNCHANGED <<orderVars, fetchVars, vat, parsed>>

NextConvert == \E amountCzk \in ConvertedAmounts, rates \in RateTables : Convert(amountCzk, rates)

SpecConvert == Init /\ [][NextConvert]_vars

\* ------------------------------------------------- calls of the utilities
\* unit prices a caller passes: 0, 0.125, 333.33, 1000, 1990, -100 and the
\* numbers that are not finite
UnitPrices ==
  {Fin(0, 1), Fin(125, 1000), Fin(33333, 100), Fin(1000, 1), Fin(1990, 1),
   Fin(-100, 1), NaN, Infinity(1), Infinity(-1)}

\* quantities: 0, 1, 2, 3, 2.7, -5, NaN, Infinity
VatQuantities ==
  {Fin(0, 1), Fin(1, 1), Fin(2, 1), Fin(3, 1), Fin(27, 10), Fin(-5, 1), NaN,
   Infinity(1)}

\* vatRate?: number -- not supplied, 0, 0.15, 0.21, 1, NaN
VatRates == {Null, Fin(0, 1), Fin(15, 100), Fin(21, 100), Fin(1, 1), NaN}

VatInputs == [unitPriceCzk : UnitPrices, quantity : VatQuantities, vatRate : VatRates]

\* a caller computes a breakdown
Breakdown(vatInput) ==
  /\ vat' = [input |-> vatInput, result |-> calculateVatBreakdown(vatInput),
             before |-> Null]
  /\ UNCHANGED <<orderVars, fetchVars, conversion, parsed>>

\* a caller takes the price before VAT of the last breakdown's total at
\* the breakdown's rate
PriceBeforeVat ==
  /\ vat # Null
  /\ vat.before = Null
  /\ vat' = [vat EXCEPT !.before =
               Some(calculatePriceBeforeVat(vat.result.totalCzk, vat.result.vatRate))]
  /\ UNCHANGED <<orderVars, fetchVars, conversion, parsed>>

NextVat ==
  \/ \E vatInput \in VatInputs : Breakdown(vatInput)
  \/ PriceBeforeVat

SpecVat == Init /\ [][NextVat]_vars

\* ----------------------------------------------------------- responses
toProductDTO(p) ==
  [id |-> p.id, priceCzk |-> Number(p.priceCzk),
   available |-> p.quantity > 0, quantity |-> p.quantity]

\* order: an order row with its product relation; fx: what fetchCnbRates
\* resolved to
enrichOrderWithConversions(order, fx) ==
  LET totalCzk == Number(order.row.totalPriceCzk)
      fxResult == convertFromCzk(totalCzk, fx.rates)
  IN [id |-> order.row.id,
      productId |-> order.row.productId,
      customer |-> order.row.customer,
      quantity |-> order.row.quantity,
      unitPriceCzk |-> Number(order.row.unitPriceCzk),
      subtotalCzk |-> Number(order.row.subtotalCzk),
      vatRate |-> Number(order.row.vatRate),
      vatAmountCzk |-> Number(order.row.vatAmountCzk),
      totalPriceCzk |-> totalCzk,
      product |-> toProductDTO(order.product),
      conversions |-> [i \in 1..Len(fxResult.conversions) |->
          [code |-> fxResult.conversions[i].code,
           amount |-> IF fxResult.conversions[i].amount = Null THEN 0
                      ELSE fxResult.conversions[i].amount.value]]]

\* ------------------------------------------------- ordersService.create
\* mutant: the stock check refuses a quantity equal to the stock
InsufficientStockInclusive(prod, q) == prod.quantity <= q

\* product.quantity < input.quantity
InsufficientStock(prod, q) == prod.quantity < q

\* POST /orders.  The validated request reaches the service; the transaction
\* callback runs tx.product.findUnique and, on its result, the two checks:
\*   if (!product) throw new NotFoundError
\*   if (product.quantity < input.quantity) throw new ConflictError
\* A throw rejects the callback: the transaction rolls back (nothing was
\* written) and the error reaches errorHandler through asyncHandler.
\* Otherwise the callback goes on to tx.order.create.
FindUnique(r, id, q) ==
  LET found == FindProduct(id)
      thrown == IF found = Null THEN NotFoundError
                ELSE IF InsufficientStock(found, q)
                     THEN ConflictError(found.quantity, q)
                     ELSE Null
  IN /\ pc[r] = "idle"
     /\ input' = [input EXCEPT ![r] =
           [op |-> "createOrder", productId |-> id, quantity |-> q, customer |-> r]]
     /\ product' = [product EXCEPT ![r] = IF thrown = Null THEN found ELSE Null]
     /\ result' = [result EXCEPT ![r] = thrown]
     /\ response' = [response EXCEPT ![r] =
           IF thrown = Null THEN Null ELSE errorHandler(thrown)]
     /\ pc' = [pc EXCEPT ![r] = IF thrown = Null THEN "found" ELSE "done"]
     /\ UNCHANGED rateVars /\ UNCHANGED <<products, orders, nextOrderId, rowLock, createdOrder, updated>>

\* mutant: the total is persisted without the VAT amount
OrderDataWithoutVat(r) ==
  LET unitPriceCzk == Number(product[r].priceCzk)
      vatBreakdown == VatBreakdownOf(unitPriceCzk, input[r].quantity,
                                            DEFAULT_VAT_RATE)
  IN [productId |-> input[r].productId,
      customer |-> input[r].customer,
      quantity |-> input[r].quantity,
      unitPriceCzk |-> ToDecimal(unitPriceCzk),
      subtotalCzk |-> ToDecimal(vatBreakdown.subtotalCzk),
      vatRate |-> ToDecimal(vatBreakdown.vatRate),
      vatAmountCzk |-> ToDecimal(vatBreakdown.vatAmountCzk),
      totalPriceCzk |-> ToDecimal(vatBreakdown.subtotalCzk)]

\* data of tx.order.create
OrderData(r) ==
  LET unitPriceCzk == Number(product[r].priceCzk)
      vatBreakdown == VatBreakdownOf(unitPriceCzk, input[r].quantity,
                                            DEFAULT_VAT_RATE)
  IN [productId |-> input[r].productId,
      customer |-> input[r].customer,
      quantity |-> input[r].quantity,
      unitPriceCzk |-> ToDecimal(unitPriceCzk),
      subtotalCzk |-> ToDecimal(vatBreakdown.subtotalCzk),
      vatRate |-> ToDecimal(vatBreakdown.vatRate),
      vatAmountCzk |-> ToDecimal(vatBreakdown.vatAmountCzk),
      totalPriceCzk |-> ToDecimal(vatBreakdown.totalCzk)]

\* mutant: the insert goes through the plain client instead of tx and is
\* committed on its own
TxOrderCreateAutocommit(r, row) ==
  /\ createdOrder' = [createdOrder EXCEPT ![r] =
        [row |-> row, product |-> FindProduct(row.productId)]]
  /\ orders' = orders \cup {row}

\* tx.order.create({data, include: {product: true}}): the row is written
\* inside the transaction; the included product is the row this statement
\* sees.  The store keeps the row in createdOrder until Commit.
TxOrderCreate(r, row) ==
  /\ createdOrder' = [createdOrder EXCEPT ![r] =
        [row |-> row, product |-> FindProduct(row.productId)]]
  /\ orders' = orders

CreateOrder(r) ==
  /\ pc[r] = "found"
  /\ TxOrderCreate(r, [id |-> nextOrderId] @@ OrderData(r))
  /\ nextOrderId' = nextOrderId + 1
  /\ pc' = [pc EXCEPT ![r] = "created"]
  /\ UNCHANGED rateVars /\ UNCHANGED <<products, rowLock, input, product, updated, result, response>>

\* mutant: the decrement ignores the ordered amount
DecrementByOne(row, n) == [row EXCEPT !.quantity = @ - 1]

\* quantity: { decrement: n } applied to the row version the UPDATE locks
Decrement(row, n) == [row EXCEPT !.quantity = @ - n]

\* mutant: the update goes through the plain client instead of tx and is
\* committed on its own
TxProductUpdateAutocommit(r, p, n) ==
  /\ updated' = [updated EXCEPT ![r] = [id |-> p] @@ Decrement(products[p], n)]
  /\ products' = [products EXCEPT ![p] = Decrement(products[p], n)]

\* tx.product.update({where: {id}, data: {quantity: {decrement: n}}}): the
\* new row version is written inside the transaction.  The store keeps it
\* in updated until Commit.
TxProductUpdate(r, p, n) ==
  /\ updated' = [updated EXCEPT ![r] = [id |-> p] @@ Decrement(products[p], n)]
  /\ products' = products

\* the UPDATE waits for the row lock, then updates the latest committed
\* version of the row and holds the lock until the transaction ends
DecrementStock(r) ==
  LET p == input[r].productId IN
  /\ pc[r] = "created"
  /\ rowLock[p] = 0
  /\ rowLock' = [rowLock EXCEPT ![p] = r]
  /\ TxProductUpdate(r, p, input[r].quantity)
  /\ pc' = [pc EXCEPT ![r] = "decremented"]
  /\ UNCHANGED rateVars /\ UNCHANGED <<orders, nextOrderId, input, product, createdOrder,
                 result, response>>

\* mutant: the commit replaces the orders table by the new row
CommitReplacingOrders(r) ==
  LET p == input[r].productId IN
  /\ pc[r] = "decremented"
  /\ orders' = {createdOrder[r].row}
  /\ products' = [products EXCEPT ![p].quantity = updated[r].quantity]
  /\ rowLock' = [rowLock EXCEPT ![p] = 0]
  /\ pc' = [pc EXCEPT ![r] = "committed"]
  /\ UNCHANGED rateVars /\ UNCHANGED <<nextOrderId, input, product, createdOrder, updated, result,
                 response>>

\* the callback returned: COMMIT makes the inserted order and the updated
\* product row visible together and releases the row lock
Commit(r) ==
  LET p == input[r].productId IN
  /\ pc[r] = "decremented"
  /\ orders' = orders \cup {createdOrder[r].row}
  /\ products' = [products EXCEPT ![p].quantity = updated[r].quantity]
  /\ rowLock' = [rowLock EXCEPT ![p] = 0]
  /\ pc' = [pc EXCEPT ![r] = "committed"]
  /\ UNCHANGED rateVars /\ UNCHANGED <<nextOrderId, input, product, createdOrder, updated, result,
                 response>>

\* mutant: after a failure in the store the request is run again
StorageFailRetrying(r, e) ==
  /\ pc[r] \in {"found", "created", "decremented"}
  /\ rowLock' = [p \in ProductIds |-> IF rowLock[p] = r THEN 0 ELSE rowLock[p]]
  /\ result' = [result EXCEPT ![r] = [name |-> e]]
  /\ response' = [response EXCEPT ![r] = errorHandler([name |-> e])]
  /\ pc' = [pc EXCEPT ![r] = "idle"]
  /\ product' = [product EXCEPT ![r] = Null]
  /\ createdOrder' = [createdOrder EXCEPT ![r] = Null]
  /\ updated' = [updated EXCEPT ![r] = Null]
  /\ UNCHANGED rateVars /\ UNCHANGED <<products, orders, nextOrderId, input>>

\* a write statement or the COMMIT is rejected by the store (constraint
\* violation, lost connection, transaction timeout): $transaction rolls the
\* transaction back and rejects with the store's error, which reaches
\* errorHandler; the callback's locals are gone
StorageErrors == {"PrismaClientKnownRequestError", "Error"}

StorageFail(r, e) ==
  /\ pc[r] \in {"found", "created", "decremented"}
  /\ rowLock' = [p \in ProductIds |-> IF rowLock[p] = r THEN 0 ELSE rowLock[p]]
  /\ result' = [result EXCEPT ![r] = [name |-> e]]
  /\ response' = [response EXCEPT ![r] = errorHandler([name |-> e])]
  /\ pc' = [pc EXCEPT ![r] = "done"]
  /\ product' = [product EXCEPT ![r] = Null]
  /\ createdOrder' = [createdOrder EXCEPT ![r] = Null]
  /\ updated' = [updated EXCEPT ![r] = Null]
  /\ UNCHANGED rateVars /\ UNCHANGED <<products, orders, nextOrderId, input>>

\* mutant: a failed rate fetch fails the request
EnrichThrowingOnFailure(r, fx) ==
  /\ pc[r] = "committed"
  /\ result' = [result EXCEPT ![r] =
        IF fx.success THEN Created ELSE [name |-> "Error"]]
  /\ response' = [response EXCEPT ![r] =
        IF fx.success
        THEN [status |-> 201, data |-> enrichOrderWithConversions(createdOrder[r], fx)]
        ELSE errorHandler([name |-> "Error"])]
  /\ pc' = [pc EXCEPT ![r] = "done"]
  /\ product' = [product EXCEPT ![r] = Null]
  /\ createdOrder' = [createdOrder EXCEPT ![r] = Null]
  /\ updated' = [updated EXCEPT ![r] = Null]
  /\ fetchCalls' = [fetchCalls EXCEPT ![r] = @ + 1]
  /\ UNCHANGED <<fetchVars, pureVars>> /\ UNCHANGED <<products, orders, nextOrderId, rowLock, input>>

\* after the commit: enrichOrderWithConversions(order) fetches the rates,
\* then the controller answers 201 with the order
Enrich(r, fx) ==
  /\ pc[r] = "committed"
  /\ result' = [result EXCEPT ![r] = Created]
  /\ response' = [response EXCEPT ![r] =
        [status |-> 201, data |-> enrichOrderWithConversions(createdOrder[r], fx)]]
  /\ pc' = [pc EXCEPT ![r] = "done"]
  /\ product' = [product EXCEPT ![r] = Null]
  /\ createdOrder' = [createdOrder EXCEPT ![r] = Null]
  /\ updated' = [updated EXCEPT ![r] = Null]
  /\ fetchCalls' = [fetchCalls EXCEPT ![r] = @ + 1]
  /\ UNCHANGED <<fetchVars, pureVars>> /\ UNCHANGED <<products, orders, nextOrderId, rowLock, input>>

\* ------------------------------------------------------------ read paths
\* what a read handler resolved to when it did not reject
Ok == [name |-> "Ok"]

\* GET /products/:id: productsService.findById, one autocommit SELECT
GetProduct(r, id) ==
  LET found == FindProduct(id)
      thrown == IF found = Null THEN NotFoundError ELSE Null
  IN /\ pc[r] = "idle"
     /\ input' = [input EXCEPT ![r] = [op |-> "getProduct", id |-> id]]
     /\ result' = [result EXCEPT ![r] = IF thrown = Null THEN Ok ELSE thrown]
     /\ response' = [response EXCEPT ![r] =
           IF thrown = Null THEN [status |-> 200, data |-> toProductDTO(found)]
           ELSE errorHandler(thrown)]
     /\ pc' = [pc EXCEPT ![r] = "done"]
     /\ UNCHANGED rateVars /\ UNCHANGED <<products, orders, nextOrderId, rowLock, product,
                    createdOrder, updated>>

\* GET /orders/:id: ordersService.findById, one autocommit SELECT of the
\* order with its product, then enrichOrderWithConversions
GetOrder(r, id, fx) ==
  LET order == FindOrder(id)
      thrown == IF order = Null THEN NotFoundError ELSE Null
  IN /\ pc[r] = "idle"
     /\ input' = [input EXCEPT ![r] = [op |-> "getOrder", id |-> id]]
     /\ result' = [result EXCEPT ![r] = IF thrown = Null THEN Ok ELSE thrown]
     /\ response' = [response EXCEPT ![r] =
           IF thrown = Null
           THEN [status |-> 200, data |-> enrichOrderWithConversions(order, fx)]
           ELSE errorHandler(thrown)]
     /\ pc' = [pc EXCEPT ![r] = "done"]
     /\ fetchCalls' = [fetchCalls EXCEPT ![r] = IF order = Null THEN @ ELSE @ + 1]
     /\ UNCHANGED <<fetchVars, pureVars>> /\ UNCHANGED <<products, orders, nextOrderId, rowLock, product,
                    createdOrder, updated>>

\* mutant: the amounts are recomputed from the product's current price
findByIdBasicRecomputed(id) ==
  LET order == FindOrder(id) IN
  IF order = Null THEN Null
  ELSE LET unitPriceCzk == Number(order.product.priceCzk)
           vatBreakdown == VatBreakdownOf(unitPriceCzk, order.row.quantity,
                                                 DEFAULT_VAT_RATE)
       IN [id |-> order.row.id,
           productId |-> order.row.productId,
           quantity |-> order.row.quantity,
           customer |-> order.row.customer,
           unitPriceCzk |-> unitPriceCzk,
           subtotalCzk |-> vatBreakdown.subtotalCzk,
           vatRate |-> vatBreakdown.vatRate,
           vatAmountCzk |-> vatBreakdown.vatAmountCzk,
           totalPriceCzk |-> vatBreakdown.totalCzk]

\* ordersService.findByIdBasic: the order row's own columns as numbers
\* (of the product only the title is selected), or null
findByIdBasic(id) ==
  LET order == FindOrder(id) IN
  IF order = Null THEN Null
  ELSE [id |-> order.row.id,
        productId |-> order.row.productId,
        quantity |-> order.row.quantity,
        customer |-> order.row.customer,
        unitPriceCzk |-> Number(order.row.unitPriceCzk),
        subtotalCzk |-> Number(order.row.subtotalCzk),
        vatRate |-> Number(order.row.vatRate),
        vatAmountCzk |-> Number(order.row.vatAmountCzk),
        totalPriceCzk |-> Number(order.row.totalPriceCzk)]

\* mutant: a failed rate fetch fails the summary
GetSummaryFailingWithFetch(r, id, fx) ==
  LET order == findByIdBasic(id)
      thrown == IF order = Null THEN NotFoundError
                ELSE IF ~fx.success THEN [name |-> "Error"]
                ELSE Null
      conversionResult == convertFromCzk(order.totalPriceCzk, fx.rates)
      summary ==
        [order |-> [id |-> order.id, productId |-> order.productId,
                    quantity |-> order.quantity, customer |-> order.customer],
         totals |->
           [czk |-> [subtotalCzk |-> order.subtotalCzk,
                     vatAmountCzk |-> order.vatAmountCzk,
                     vatRate |-> order.vatRate,
                     totalCzk |-> order.totalPriceCzk],
            fx |-> [available |-> conversionResult.fxAvailable,
                    error |-> IF fx.success THEN Null ELSE fx.error,
                    conversions |-> conversionResult.conversions]]]
  IN /\ pc[r] = "idle"
     /\ input' = [input EXCEPT ![r] = [op |-> "getSummary", id |-> id]]
     /\ result' = [result EXCEPT ![r] = IF thrown = Null THEN Ok ELSE thrown]
     /\ response' = [response EXCEPT ![r] =
           IF thrown = Null THEN [status |-> 200, data |-> summary]
           ELSE errorHandler(thrown)]
     /\ pc' = [pc EXCEPT ![r] = "done"]
     /\ fetchCalls' = [fetchCalls EXCEPT ![r] = IF order = Null THEN @ ELSE @ + 1]
     /\ UNCHANGED <<fetchVars, pureVars>> /\ UNCHANGED <<products, orders, nextOrderId, rowLock, product,
                    createdOrder, updated>>

\* mutant: the rates are fetched before the order is looked up
GetSummaryFetchingFirst(r, id, fx) ==
  LET order == findByIdBasic(id)
      thrown == IF order = Null THEN NotFoundError ELSE Null
      conversionResult == convertFromCzk(order.totalPriceCzk, fx.rates)
      summary ==
        [order |-> [id |-> order.id, productId |-> order.productId,
                    quantity |-> order.quantity, customer |-> order.customer],
         totals |->
           [czk |-> [subtotalCzk |-> order.subtotalCzk,
                     vatAmountCzk |-> order.vatAmountCzk,
                     vatRate |-> order.vatRate,
                     totalCzk |-> order.totalPriceCzk],
            fx |-> [available |-> conversionResult.fxAvailable,
                    error |-> IF fx.success THEN Null ELSE fx.error,
                    conversions |-> conversionResult.conversions]]]
  IN /\ pc[r] = "idle"
     /\ input' = [input EXCEPT ![r] = [op |-> "getSummary", id |-> id]]
     /\ result' = [result EXCEPT ![r] = IF thrown = Null THEN Ok ELSE thrown]
     /\ response' = [response EXCEPT ![r] =
           IF thrown = Null THEN [status |-> 200, data |-> summary]
           ELSE errorHandler(thrown)]
     /\ pc' = [pc EXCEPT ![r] = "done"]
     /\ fetchCalls' = [fetchCalls EXCEPT ![r] = @ + 1]
     /\ UNCHANGED <<fetchVars, pureVars>> /\ UNCHANGED <<products, orders, nextOrderId, rowLock, product,
                    createdOrder, updated>>

\* GET /orders/:id/summary: findByIdBasic, then the rates are fetched and
\* the total converted; a failed fetch degrades the fx section only
GetSummary(r, id, fx) ==
  LET order == findByIdBasic(id)
      thrown == IF order = Null THEN NotFoundError ELSE Null
      conversionResult == convertFromCzk(order.totalPriceCzk, fx.rates)
      summary ==
        [order |-> [id |-> order.id, productId |-> order.productId,
                    quantity |-> order.quantity, customer |-> order.customer],
         totals |->
           [czk |-> [subtotalCzk |-> order.subtotalCzk,
                     vatAmountCzk |-> order.vatAmountCzk,
                     vatRate |-> order.vatRate,
                     totalCzk |-> order.totalPriceCzk],
            fx |-> [available |-> conversionResult.fxAvailable,
                    error |-> IF fx.success THEN Null ELSE fx.error,
                    conversions |-> conversionResult.conversions]]]
  IN /\ pc[r] = "idle"
     /\ input' = [input EXCEPT ![r] = [op |-> "getSummary", id |-> id]]
     /\ result' = [result EXCEPT ![r] = IF thrown = Null THEN Ok ELSE thrown]
     /\ response' = [response EXCEPT ![r] =
           IF thrown = Null THEN [status |-> 200, data |-> summary]
           ELSE errorHandler(thrown)]
     /\ pc' = [pc EXCEPT ![r] = "done"]
     /\ fetchCalls' = [fetchCalls EXCEPT ![r] = IF order = Null THEN @ ELSE @ + 1]
     /\ UNCHANGED <<fetchVars, pureVars>> /\ UNCHANGED <<products, orders, nextOrderId, rowLock, product,
                    createdOrder, updated>>

\* ------------------------------------------- other operations on products
\* createOrderSchema.quantity: an integer, positive, at most 1000
validQuantity(q) == q >= 1 /\ q <= MAX_ORDER_QUANTITY

\* quantities the schema refuses: below and above the range
InvalidQuantities == {0, MAX_ORDER_QUANTITY + 1}

\* POST /orders with a body the schema refuses: validate throws
\* ValidationError before the service is called
RejectInvalid(r, id, q) ==
  /\ pc[r] = "idle"
  /\ ~validQuantity(q)
  /\ input' = [input EXCEPT ![r] =
        [op |-> "createOrder", productId |-> id, quantity |-> q, customer |-> r]]
  /\ result' = [result EXCEPT ![r] = ValidationError]
  /\ response' = [response EXCEPT ![r] = errorHandler(ValidationError)]
  /\ pc' = [pc EXCEPT ![r] = "done"]
  /\ UNCHANGED rateVars /\ UNCHANGED <<products, orders, nextOrderId, rowLock, product,
                 createdOrder, updated>>

\* a JSON number, carried in tenths (1.5 = 15, 3 = 30)
JsonNumber(tenths) == [tenths |-> tenths]

\* z.number().int().positive() on a field that may be missing
PositiveInt(v) == v # Null /\ v.tenths % 10 = 0 /\ v.tenths > 0

\* createOrderSchema.safeParse(body).success; the customer object is taken
\* as a whole: present with every required field, or missing
createOrderSchema(body) ==
  /\ PositiveInt(body.productId)
  /\ PositiveInt(body.quantity) /\ body.quantity.tenths <= MAX_ORDER_QUANTITY * 10
  /\ body.customer # Null

\* request bodies: the product named, a quantity that is missing, 1.5, 0,
\* 1001 or 1, and a customer that is missing or given
Bodies ==
  [productId : {JsonNumber(10)},
   quantity : {Null, JsonNumber(15), JsonNumber(0),
               JsonNumber((MAX_ORDER_QUANTITY + 1) * 10), JsonNumber(10)},
   customer : {Null, [name |-> "customer"]}]

\* POST /orders with a body createOrderSchema refuses: validate throws
\* ValidationError with the field errors before the service is called
ValidateFails(r, body) ==
  /\ pc[r] = "idle"
  /\ ~createOrderSchema(body)
  /\ input' = [input EXCEPT ![r] = [op |-> "createOrder", body |-> Some(body)]]
  /\ result' = [result EXCEPT ![r] = ValidationError]
  /\ response' = [response EXCEPT ![r] = errorHandler(ValidationError)]
  /\ pc' = [pc EXCEPT ![r] = "done"]
  /\ UNCHANGED rateVars /\ UNCHANGED <<products, orders, nextOrderId, rowLock, product,
                 createdOrder, updated>>

\* what express.json() passes to next() for a body that is not JSON: a
\* SyntaxError carrying status 400, which is not an ApiError
BodySyntaxError ==
  [name |-> "SyntaxError", statusCode |-> 400, type |-> "entity.parse.failed"]

\* POST /orders with a body that is not JSON: express.json() fails before
\* the route is reached and the error goes to errorHandler; req.body was
\* never set
JsonParseFails(r) ==
  /\ pc[r] = "idle"
  /\ input' = [input EXCEPT ![r] = [op |-> "createOrder", body |-> Null]]
  /\ result' = [result EXCEPT ![r] = BodySyntaxError]
  /\ response' = [response EXCEPT ![r] = errorHandler(BodySyntaxError)]
  /\ pc' = [pc EXCEPT ![r] = "done"]
  /\ UNCHANGED rateVars /\ UNCHANGED <<products, orders, nextOrderId, rowLock, product,
                 createdOrder, updated>>

\* prisma.product.findMany({where, orderBy}): the committed rows that pass
\* the filter, in order (the rows' titles are taken to sort as their ids)
findMany(includeOutOfStock) ==
  LET ids == {p \in ProductIds : includeOutOfStock \/ products[p].quantity > 0}
      n == Cardinality(ids)
      order == CHOOSE f \in [1..n -> ids] :
                 \A i, j \in 1..n : i < j => f[i] < f[j]
  IN [i \in 1..n |-> FindProduct(order[i])]

\* GET /products: productsService.findAll, one autocommit SELECT
ListProducts(r, includeOutOfStock) ==
  LET rows == findMany(includeOutOfStock) IN
  /\ pc[r] = "idle"
  /\ input' = [input EXCEPT ![r] =
        [op |-> "listProducts", includeOutOfStock |-> includeOutOfStock]]
  /\ result' = [result EXCEPT ![r] = Ok]
  /\ response' = [response EXCEPT ![r] =
        [status |-> 200, data |-> [i \in 1..Len(rows) |-> toProductDTO(rows[i])]]]
  /\ pc' = [pc EXCEPT ![r] = "done"]
  /\ UNCHANGED rateVars /\ UNCHANGED <<products, orders, nextOrderId, rowLock, product,
                 createdOrder, updated>>

\* mutant: the availability check reserves the quantity it found
CheckAvailabilityReserving(r, productId, requestedQuantity) ==
  LET found == FindProduct(productId)
      returned == IF found = Null THEN FALSE
                  ELSE found.quantity >= requestedQuantity
  IN /\ pc[r] = "idle"
     /\ input' = [input EXCEPT ![r] =
           [op |-> "checkAvailability", productId |-> productId,
            quantity |-> requestedQuantity]]
     /\ result' = [result EXCEPT ![r] = Ok]
     /\ response' = [response EXCEPT ![r] = [returned |-> returned]]
     /\ pc' = [pc EXCEPT ![r] = "done"]
     /\ products' = IF returned
                    THEN [products EXCEPT ![productId].quantity =
                            @ - requestedQuantity]
                    ELSE products
     /\ UNCHANGED rateVars /\ UNCHANGED <<orders, nextOrderId, rowLock, product, createdOrder, updated>>

\* productsService.checkAvailability: one autocommit SELECT of the quantity;
\* the call returns a boolean
CheckAvailability(r, productId, requestedQuantity) ==
  LET found == FindProduct(productId)
      returned == IF found = Null THEN FALSE
                  ELSE found.quantity >= requestedQuantity
  IN /\ pc[r] = "idle"
     /\ input' = [input EXCEPT ![r] =
           [op |-> "checkAvailability", productId |-> productId,
            quantity |-> requestedQuantity]]
     /\ result' = [result EXCEPT ![r] = Ok]
     /\ response' = [response EXCEPT ![r] = [returned |-> returned]]
     /\ pc' = [pc EXCEPT ![r] = "done"]
     /\ UNCHANGED rateVars /\ UNCHANGED <<products, orders, nextOrderId, rowLock, product,
                    createdOrder, updated>>

\* ---------------------------------------------------------- fetchCnbRates
\* the clock advances in steps of a fraction of the timeout
TickMs == FETCH_TIMEOUT_MS \div TicksPerTimeout

MaxTime == MaxTicks * TickMs

\* response.ok
ok(status) == status >= 200 /\ status <= 299

Statuses == {200, 503}

Texts == {RateSheet, NoRateSheet}

ErrorMessages == {"fetch failed"}

\* fetchCnbRates is called: setTimeout(() => controller.abort(),
\* FETCH_TIMEOUT_MS) arms the timer and fetch(CNB_API_URL, {signal}) sends
\* the request; the function waits for fetch().  Calls are made while the
\* deadline lies within the horizon of the clock.
Call(c) ==
  /\ fpc[c] = "idle"
  /\ now + FETCH_TIMEOUT_MS <= MaxTime
  /\ timer' = [timer EXCEPT ![c] = Some(now + FETCH_TIMEOUT_MS)]
  /\ issuedAt' = [issuedAt EXCEPT ![c] = Some(now)]
  /\ fpc' = [fpc EXCEPT ![c] = "fetching"]
  /\ UNCHANGED <<orderVars, pureVars>> /\ UNCHANGED <<now, received, fresult>>

\* mutant: the timer stays armed until the body has been read
StatusArrivesTimerKept(c, status) ==
  /\ fpc[c] = "fetching"
  /\ timer' = timer
  /\ IF ~ok(status)
     THEN /\ fresult' = [fresult EXCEPT ![c] = FetchStatusFailure(status)]
          /\ fpc' = [fpc EXCEPT ![c] = "resolved"]
     ELSE /\ fresult' = fresult
          /\ fpc' = [fpc EXCEPT ![c] = "reading"]
  /\ UNCHANGED <<orderVars, pureVars>> /\ UNCHANGED <<now, received, issuedAt>>

\* the status line and the headers arrive: fetch() resolves, clearTimeout
\* disarms the timer; a status that is not ok returns the failure, an ok
\* status goes on to await response.text()
StatusArrives(c, status) ==
  /\ fpc[c] = "fetching"
  /\ timer' = [timer EXCEPT ![c] = Null]
  /\ IF ~ok(status)
     THEN /\ fresult' = [fresult EXCEPT ![c] = FetchStatusFailure(status)]
          /\ fpc' = [fpc EXCEPT ![c] = "resolved"]
     ELSE /\ fresult' = fresult
          /\ fpc' = [fpc EXCEPT ![c] = "reading"]
  /\ UNCHANGED <<orderVars, pureVars>> /\ UNCHANGED <<now, received, issuedAt>>

\* the source sends a piece of the body that does not complete it
BodyChunk(c) ==
  /\ fpc[c] = "reading"
  /\ received' = [received EXCEPT ![c] = 1 - @]
  /\ UNCHANGED <<orderVars, pureVars>> /\ UNCHANGED <<now, fpc, timer, issuedAt, fresult>>

\* the body is complete: response.text() resolves, the text is parsed and
\* the success result returned with fetchedAt: new Date()
BodyEnds(c, text) ==
  /\ fpc[c] = "reading"
  /\ fresult' = [fresult EXCEPT ![c] =
        [fetchedAt |-> now] @@ FetchSuccess(parseRatesText(text))]
  /\ fpc' = [fpc EXCEPT ![c] = "resolved"]
  /\ UNCHANGED <<orderVars, pureVars>> /\ UNCHANGED <<now, timer, received, issuedAt>>

\* the connection fails (DNS, reset, TLS): fetch() or response.text()
\* rejects and the catch block returns the failure; a timer that is still
\* armed stays armed
ConnectionFails(c, message) ==
  /\ fpc[c] \in {"fetching", "reading"}
  /\ fresult' = [fresult EXCEPT ![c] = FetchCaughtFailure(message)]
  /\ fpc' = [fpc EXCEPT ![c] = "resolved"]
  /\ UNCHANGED <<orderVars, pureVars>> /\ UNCHANGED <<now, timer, received, issuedAt>>

\* the timer fires at its deadline: controller.abort().  A fetch() still
\* pending rejects with the abort error, which the catch block turns into
\* the failure; on a call that has ended the abort does nothing.
TimerFires(c) ==
  /\ timer[c] # Null
  /\ now >= timer[c].value
  /\ timer' = [timer EXCEPT ![c] = Null]
  /\ IF fpc[c] \in {"fetching", "reading"}
     THEN /\ fresult' = [fresult EXCEPT ![c] =
                FetchCaughtFailure("This operation was aborted")]
          /\ fpc' = [fpc EXCEPT ![c] = "resolved"]
     ELSE UNCHANGED <<fresult, fpc>>
  /\ UNCHANGED <<orderVars, pureVars>> /\ UNCHANGED <<now, received, issuedAt>>

\* time passes, but not beyond the deadline of an armed timer
Tick ==
  /\ now < MaxTime
  /\ \A c \in Calls : timer[c] # Null => now < timer[c].value
  /\ now' = now + TickMs
  /\ UNCHANGED <<orderVars, pureVars>> /\ UNCHANGED <<fpc, timer, received, issuedAt, fresult>>

NextFetch ==
  \/ \E c \in Calls : Call(c)
  \/ \E c \in Calls, status \in Statuses : StatusArrives(c, status)
  \/ \E c \in Calls : BodyChunk(c)
  \/ \E c \in Calls, text \in Texts : BodyEnds(c, text)
  \/ \E c \in Calls, message \in ErrorMessages : ConnectionFails(c, message)
  \/ \E c \in Calls : TimerFires(c)
  \/ Tick

SpecFetch == Init /\ [][NextFetch]_vars

\* the event loop runs every timer that is due and time does not stop; the
\* source may stall for ever, or keep sending pieces of the body for ever
SpecFetchFair ==
  /\ Init /\ [][NextFetch]_vars
  /\ WF_vars(Tick)
  /\ \A c \in Calls : WF_vars(TimerFires(c)) /\ WF_vars(BodyChunk(c))

\* ------------------------------------------------------------------ system
Next ==
  \/ \E r \in Requests, id \in RequestedIds, q \in Quantities : FindUnique(r, id, q)
  \/ \E r \in Requests : CreateOrder(r)
  \/ \E r \in Requests : DecrementStock(r)
  \/ \E r \in Requests : Commit(r)
  \/ \E r \in Requests, e \in StorageErrors : StorageFail(r, e)
  \/ \E r \in Requests, fx \in FetchResults : Enrich(r, fx)
  \/ \E r \in Requests, id \in RequestedIds : GetProduct(r, id)
  \/ \E r \in Requests, id \in OrderIds, fx \in FetchResults : GetOrder(r, id, fx)
  \/ \E r \in Requests, id \in OrderIds, fx \in FetchResults : GetSummary(r, id, fx)

Spec == Init /\ [][Next]_vars

\* The product's price is changed once, by a single UPDATE outside the
\* service (the service itself never writes the price); the UPDATE waits
\* for the row lock like any other.
PriceChange(p) ==
  /\ rowLock[p] = 0
  /\ products[p].priceCzk = ToDecimal(InitPrice)
  /\ products' = [products EXCEPT ![p].priceCzk = ToDecimal(NewPrice)]
  /\ UNCHANGED rateVars /\ UNCHANGED <<orders, nextOrderId, rowLock, pc, input, product,
                 createdOrder, updated, result, response>>

\* quantities ordered while the price changes: the smallest and the largest
PriceQuantities == {1, MaxQty}

\* order creation and the order reads, with the price change
NextPrice ==
  \/ \E r \in Requests, id \in ProductIds, q \in PriceQuantities : FindUnique(r, id, q)
  \/ \E r \in Requests : CreateOrder(r)
  \/ \E r \in Requests : DecrementStock(r)
  \/ \E r \in Requests : Commit(r)
  \/ \E r \in Requests, fx \in FetchResults : Enrich(r, fx)
  \/ \E r \in Requests, id \in OrderIds, fx \in FetchResults : GetOrder(r, id, fx)
  \/ \E r \in Requests, id \in OrderIds, fx \in FetchResults : GetSummary(r, id, fx)
  \/ \E p \in ProductIds : PriceChange(p)

SpecPrice == Init /\ [][NextPrice]_vars

\* order creation and the order reads, with every result the rate fetch
\* can resolve to
NextFx ==
  \/ \E r \in Requests, id \in ProductIds, q \in PriceQuantities : FindUnique(r, id, q)
  \/ \E r \in Requests : CreateOrder(r)
  \/ \E r \in Requests : DecrementStock(r)
  \/ \E r \in Requests : Commit(r)
  \/ \E r \in Requests, fx \in AllFetchResults : Enrich(r, fx)
  \/ \E r \in Requests, id \in OrderIds, fx \in AllFetchResults : GetOrder(r, id, fx)
  \/ \E r \in Requests, id \in OrderIds, fx \in AllFetchResults : GetSummary(r, id, fx)

SpecFx == Init /\ [][NextFx]_vars

\* every operation of the two services on one store
NextAll ==
  \/ Next
  \/ \E r \in Requests, id \in RequestedIds, q \in InvalidQuantities :
       RejectInvalid(r, id, q)
  \/ \E r \in Requests, b \in BOOLEAN : ListProducts(r, b)
  \/ \E r \in Requests, id \in RequestedIds, q \in PriceQuantities :
       CheckAvailability(r, id, q)

SpecAll == Init /\ [][NextAll]_vars

\* POST /orders alone: every way a create-order request can go
NextCreate ==
  \/ \E r \in Requests, id \in RequestedIds, q \in PriceQuantities : FindUnique(r, id, q)
  \/ \E r \in Requests : CreateOrder(r)
  \/ \E r \in Requests : DecrementStock(r)
  \/ \E r \in Requests : Commit(r)
  \/ \E r \in Requests, e \in StorageErrors : StorageFail(r, e)
  \/ \E r \in Requests, fx \in FetchResults : Enrich(r, fx)
  \/ \E r \in Requests, id \in RequestedIds, q \in InvalidQuantities :
       RejectInvalid(r, id, q)
  \/ \E r \in Requests, body \in Bodies : ValidateFails(r, body)
  \/ \E r \in Requests : JsonParseFails(r)

SpecCreate == Init /\ [][NextCreate]_vars

\* ================================================================ claims
QuantityOf(ps) == [p \in ProductIds |-> ps[p].quantity]

Ended(r) == pc[r] = "done"

IsCreate(r) == input[r] # Null /\ input[r].op = "createOrder"

IsRead(r, op) == input[r] # Null /\ input[r].op = op

Threw(r, name) == result[r] # Null /\ result[r].name = name

\* r failed in the store (not a NotFound, not a Conflict)
StorageFailed(r) == result[r] # Null /\ result[r].name \in StorageErrors

\* r's handler starts in this step as a create-order request
StartsCreate(r) ==
  pc[r] = "idle" /\ pc'[r] # "idle" /\ input'[r].op = "createOrder"

\* r's handler runs in this step as the read op and answers 200
AnswersRead(r, op) ==
  /\ pc[r] = "idle" /\ pc'[r] = "done"
  /\ input'[r].op = op
  /\ response'[r].status = 200

\* the amounts an order row carries, as numbers
Amounts(o) ==
  [unitPriceCzk |-> Number(o.unitPriceCzk), vatRate |-> Number(o.vatRate),
   subtotalCzk |-> Number(o.subtotalCzk), vatAmountCzk |-> Number(o.vatAmountCzk),
   totalPriceCzk |-> Number(o.totalPriceCzk)]

\* C1: in every reachable state every product's available quantity is >= 0.
C1_StockNeverNegative == \A p \in ProductIds : products[p].quantity >= 0

\* C2: two create-order requests on the same product whose quantities
\* together exceed the stock never both commit; with stock 5 and two requests
\* of 3 and nothing else ordered, exactly one is created, the other gets
\* Conflict, and the final stock is 2.
C2_ConcurrentOversellRefused ==
  \A r1, r2 \in Requests :
    (/\ r1 # r2
     /\ Ended(r1) /\ Ended(r2)
     /\ IsCreate(r1) /\ IsCreate(r2)
     /\ input[r1].productId \in ProductIds
     /\ input[r1].productId = input[r2].productId
     /\ input[r1].quantity + input[r2].quantity > InitStock)
    => /\ ~(result[r1] = Created /\ result[r2] = Created)
       /\ (/\ InitStock = 5
           /\ input[r1].quantity = 3 /\ input[r2].quantity = 3
           /\ ~StorageFailed(r1) /\ ~StorageFailed(r2)
           /\ OrdersOf(input[r1].productId) \subseteq OrdersBy(r1) \cup OrdersBy(r2))
          => /\ \/ result[r1] = Created /\ Threw(r2, "ConflictError")
                \/ result[r2] = Created /\ Threw(r1, "ConflictError")
             /\ products[input[r1].productId].quantity = 2

\* C3: the quantity a transaction decrements from is the quantity it
\* checked: no other decrement of the product takes effect between its stock
\* check and its decrement.
C3_DecrementsFromCheckedQuantity ==
  \A r \in Requests :
    pc[r] \in {"decremented", "committed"}
    => updated[r].quantity = product[r].quantity - input[r].quantity

\* C4: the order insert and the stock decrement take effect together or not
\* at all: every step that changes the committed orders or a committed
\* quantity adds one transaction's order row and lowers that product's
\* quantity by the row's quantity; a step in which a request fails changes
\* neither, and a failed request leaves no order row.
C4_InsertAndDecrementTogether ==
  [][ /\ \A r \in Requests :
           (result'[r] # result[r] /\ result'[r] \notin {Created, Ok})
           => /\ orders' = orders
              /\ QuantityOf(products') = QuantityOf(products)
              /\ {o \in orders' : o.customer = r} = {}
      /\ (orders' # orders \/ QuantityOf(products') # QuantityOf(products))
         => \E r \in Requests :
              /\ createdOrder[r] # Null
              /\ createdOrder[r].row \notin orders
              /\ orders' = orders \cup {createdOrder[r].row}
              /\ QuantityOf(products') =
                   [QuantityOf(products) EXCEPT ![createdOrder[r].row.productId] =
                      @ - createdOrder[r].row.quantity]
    ]_vars

\* the only transaction that has run failed in the store after its insert
\* (the id sequence has advanced); no order row exists and the stock is
\* what it was
C4_Witness ==
  \E r \in Requests :
    /\ Ended(r) /\ StorageFailed(r)
    /\ \A r2 \in Requests \ {r} : pc[r2] = "idle"
    /\ nextOrderId > 1
    /\ orders = {}
    /\ products[input[r].productId].quantity = InitStock

\* C5: what a product read or an order read answers is a committed state:
\* the quantity it shows is the initial quantity less the quantities of
\* exactly the orders that exist at that moment, so no read shows an order
\* without its decrement or a decrement without its order.
C5_ReadersSeeNoIntermediateState ==
  [][ \A r \in Requests :
        /\ AnswersRead(r, "getProduct")
           => LET d == response'[r].data IN
              d.quantity + SumQuantity(OrdersOf(d.id)) = InitStock
        /\ AnswersRead(r, "getOrder")
           => LET d == response'[r].data IN
              /\ \E o \in orders : o.id = d.id /\ o.quantity = d.quantity
              /\ d.product.quantity + SumQuantity(OrdersOf(d.productId)) = InitStock
    ]_vars

\* a product read has answered with the initial quantity while a
\* transaction holds an uncommitted order and an uncommitted decrement
C5_Witness ==
  \E r, w \in Requests :
    /\ Ended(r) /\ IsRead(r, "getProduct")
    /\ response[r].status = 200
    /\ response[r].data.quantity = InitStock
    /\ pc[w] = "decremented"
    /\ updated[w].quantity < InitStock
    /\ createdOrder[w].row \notin orders

\* C6: stock is conserved: for every product, committed quantity + the sum
\* of the quantities of its persisted orders = its initial quantity.
C6_StockConserved ==
  \A p \in ProductIds :
    products[p].quantity + SumQuantity(OrdersOf(p)) = InitStock

\* an order for more than one unit is persisted while another request on
\* the product has failed
C6_Witness ==
  \E r1, r2 \in Requests :
    /\ IsCreate(r1) /\ IsCreate(r2)
    /\ result[r1] = Created /\ input[r1].quantity > 1
    /\ \E o \in OrdersBy(r1) :
         products[o.productId].quantity = InitStock - o.quantity
    /\ Ended(r2) /\ result[r2] # Created
    /\ input[r2].productId = input[r1].productId

\* C7: a create-order request naming a product that does not exist ends in
\* the step that looks the product up, with NotFound (404), whatever its
\* quantity, and writes nothing.
C7_MissingProductNotFound ==
  [][ \A r \in Requests :
        (StartsCreate(r) /\ input'[r].productId \notin ProductIds)
        => /\ pc'[r] = "done"
           /\ result'[r] = NotFoundError
           /\ response'[r].status = 404
           /\ orders' = orders /\ products' = products
           /\ nextOrderId' = nextOrderId
    ]_vars

\* a request for the largest quantity on a missing product got 404
C7_Witness ==
  \E r \in Requests :
    /\ Ended(r) /\ IsCreate(r)
    /\ input[r].productId \notin ProductIds
    /\ input[r].quantity = MaxQty
    /\ response[r].status = 404
    /\ OrdersBy(r) = {}

\* C8: a create-order request for an existing product ends with Conflict
\* (409) exactly when the requested quantity exceeds the available stock (a
\* quantity equal to the stock goes on to the insert), and a Conflict writes
\* nothing.
C8_InsufficientStockConflict ==
  [][ \A r \in Requests :
        (StartsCreate(r) /\ input'[r].productId \in ProductIds)
        => LET available == products[input'[r].productId].quantity
               requested == input'[r].quantity
           IN /\ requested > available
                 => /\ pc'[r] = "done"
                    /\ result'[r].name = "ConflictError"
                    /\ response'[r].status = 409
                    /\ orders' = orders /\ products' = products
                    /\ nextOrderId' = nextOrderId
              /\ requested <= available
                 => /\ pc'[r] = "found"
                    /\ result'[r] = Null /\ response'[r] = Null
    ]_vars

\* a request for more than the remaining stock got 409 and left no order
C8_Witness ==
  \E r \in Requests :
    /\ Ended(r) /\ IsCreate(r)
    /\ Threw(r, "ConflictError")
    /\ result[r].requested > result[r].available
    /\ result[r].available > 0
    /\ response[r].status = 409
    /\ OrdersBy(r) = {}

\* C9: a persisted order carries the requested quantity, the product price
\* read in the transaction, tax rate 0.21 and the breakdown of that price and
\* quantity at 0.21; the 201 response returns the same values.
C9_PersistedOrderIsBreakdown ==
  \A r \in Requests :
    /\ pc[r] = "committed"
       => LET o == createdOrder[r].row
              price == Number(product[r].priceCzk)
              b == VatBreakdownOf(price, input[r].quantity, DEFAULT_VAT_RATE)
          IN /\ o \in orders
             /\ o.quantity = input[r].quantity
             /\ Amounts(o) = [unitPriceCzk |-> price, vatRate |-> 21,
                              subtotalCzk |-> b.subtotalCzk,
                              vatAmountCzk |-> b.vatAmountCzk,
                              totalPriceCzk |-> b.totalCzk]
    /\ (Ended(r) /\ result[r] = Created)
       => LET d == response[r].data IN
          \E o \in OrdersBy(r) :
            /\ o.id = d.id
            /\ d.quantity = input[r].quantity /\ o.quantity = d.quantity
            /\ Amounts(o) = [unitPriceCzk |-> d.unitPriceCzk, vatRate |-> d.vatRate,
                             subtotalCzk |-> d.subtotalCzk,
                             vatAmountCzk |-> d.vatAmountCzk,
                             totalPriceCzk |-> d.totalPriceCzk]
            /\ d.unitPriceCzk = Number(products[o.productId].priceCzk)

\* an order of 3 units at 333.33 is persisted as 999.99 / 210.00 / 1209.99
\* and returned
C9_Witness ==
  \E r \in Requests :
    /\ Ended(r) /\ result[r] = Created
    /\ input[r].quantity = 3
    /\ response[r].data.subtotalCzk = 99999
    /\ response[r].data.vatAmountCzk = 21000
    /\ response[r].data.totalPriceCzk = 120999
    /\ \E o \in OrdersBy(r) : Number(o.totalPriceCzk) = 120999

\* C10: an order's unit price, tax rate, subtotal, tax amount and total are
\* a frozen snapshot: a persisted row never changes, it carries the
\* breakdown of its own unit price, and what get-order and get-order-summary
\* answer are the row's values, whatever the product's price or stock is.
C10_AmountsAreFrozenSnapshot ==
  /\ [](\A o \in orders :
          LET b == VatBreakdownOf(Number(o.unitPriceCzk), o.quantity,
                                         DEFAULT_VAT_RATE)
          IN Amounts(o) = [unitPriceCzk |-> Number(o.unitPriceCzk), vatRate |-> 21,
                           subtotalCzk |-> b.subtotalCzk,
                           vatAmountCzk |-> b.vatAmountCzk,
                           totalPriceCzk |-> b.totalCzk])
  /\ [][ /\ orders \subseteq orders'
         /\ \A r \in Requests :
              /\ AnswersRead(r, "getOrder")
                 => LET d == response'[r].data IN
                    \E o \in orders :
                      /\ o.id = d.id
                      /\ Amounts(o) =
                           [unitPriceCzk |-> d.unitPriceCzk, vatRate |-> d.vatRate,
                            subtotalCzk |-> d.subtotalCzk,
                            vatAmountCzk |-> d.vatAmountCzk,
                            totalPriceCzk |-> d.totalPriceCzk]
              /\ AnswersRead(r, "getSummary")
                 => LET d == response'[r].data IN
                    \E o \in orders :
                      /\ o.id = d.order.id
                      /\ Number(o.vatRate) = d.totals.czk.vatRate
                      /\ Number(o.subtotalCzk) = d.totals.czk.subtotalCzk
                      /\ Number(o.vatAmountCzk) = d.totals.czk.vatAmountCzk
                      /\ Number(o.totalPriceCzk) = d.totals.czk.totalCzk
       ]_vars

\* get-order answered an order taken at 333.33 after the product's price
\* had become 1990.00: the product shows the new price, the order the old
\* amounts
C10_Witness ==
  \E r \in Requests :
    /\ Ended(r) /\ IsRead(r, "getOrder")
    /\ response[r].status = 200
    /\ response[r].data.product.priceCzk = NewPrice
    /\ response[r].data.unitPriceCzk = InitPrice
    /\ response[r].data.totalPriceCzk =
         VatBreakdownOf(InitPrice, response[r].data.quantity,
                               DEFAULT_VAT_RATE).totalCzk

\* C11: a create-order request that ends with success has added exactly one
\* order and one that ends with a failure has added none; no step removes
\* an order or changes a field of one, and a step adds at most one order.
C11_OrdersOnlyGrow ==
  [][ /\ orders \subseteq orders'
      /\ Cardinality(orders') <= Cardinality(orders) + 1
      /\ \A o1, o2 \in orders' : o1.id = o2.id => o1 = o2
      /\ \A r \in Requests :
           (pc[r] # "done" /\ pc'[r] = "done" /\ input'[r].op = "createOrder")
           => IF result'[r] = Created
              THEN Cardinality({o \in orders' : o.customer = r}) = 1
              ELSE {o \in orders' : o.customer = r} = {}
    ]_vars

\* two requests have each been answered 201 and two orders exist
C11_Witness ==
  /\ Cardinality(orders) = 2
  /\ \E r1, r2 \in Requests :
       /\ r1 # r2
       /\ Ended(r1) /\ result[r1] = Created
       /\ Ended(r2) /\ result[r2] = Created
       /\ OrdersBy(r1) # {} /\ OrdersBy(r2) # {}

\* C12: a product's quantity is written only by the decrement of a
\* create-order transaction that commits: every step that changes a
\* committed quantity is such a commit and lowers that product's quantity by
\* the ordered amount, and every request that is answered in one step (the
\* reads, checkAvailability, and create-order ending in a validation
\* failure, NotFound or Conflict) leaves the products table as it was.
C12_QuantityWrittenOnlyByDecrement ==
  [][ /\ QuantityOf(products') # QuantityOf(products)
         => \E r \in Requests :
              /\ pc[r] = "decremented" /\ pc'[r] = "committed"
              /\ IsCreate(r)
              /\ QuantityOf(products') =
                   [QuantityOf(products) EXCEPT ![input[r].productId] =
                      @ - input[r].quantity]
      /\ \A r \in Requests :
           (pc[r] = "idle" /\ pc'[r] = "done") => products' = products
    ]_vars

\* after an order has lowered the stock, a product listing has been
\* answered with the lowered quantity, which is still the stored one
C12_Witness ==
  \E r1, r2 \in Requests :
    /\ Ended(r1) /\ result[r1] = Created
    /\ Ended(r2) /\ IsRead(r2, "listProducts")
    /\ Len(response[r2].data) = 1
    /\ response[r2].data[1].quantity = InitStock - input[r1].quantity
    /\ products[response[r2].data[1].id].quantity = response[r2].data[1].quantity

\* C13: for every stored order, get-order-summary answers 200 with the
\* stored subtotal, tax amount, tax rate and total, whatever the rate fetch
\* resolved to.
C13_SummaryAlwaysHasCzkTotals ==
  [][ \A r \in Requests :
        (/\ pc[r] = "idle" /\ pc'[r] = "done"
         /\ input'[r].op = "getSummary"
         /\ \E o \in orders : o.id = input'[r].id)
        => /\ response'[r].status = 200
           /\ \E o \in orders :
                /\ o.id = input'[r].id
                /\ response'[r].data.totals.czk =
                     [subtotalCzk |-> Number(o.subtotalCzk),
                      vatAmountCzk |-> Number(o.vatAmountCzk),
                      vatRate |-> Number(o.vatRate),
                      totalCzk |-> Number(o.totalPriceCzk)]
    ]_vars

\* a summary was answered 200 with the order's total although the rate
\* source had answered 503
C13_Witness ==
  \E r \in Requests :
    /\ Ended(r) /\ IsRead(r, "getSummary")
    /\ response[r].status = 200
    /\ response[r].data.totals.fx.error = FetchStatusFailure(503).error
    /\ \E o \in orders :
         /\ o.id = response[r].data.order.id
         /\ response[r].data.totals.czk.totalCzk = Number(o.totalPriceCzk)
         /\ Number(o.totalPriceCzk) > 0

\* C14: the summary's foreign-currency section follows the rate fetch: a
\* section without error (the fetch succeeded) has available = true, and a
\* section with an error (the fetch failed) has available = false and every
\* conversion unavailable.
C14_FxSectionFollowsRateSource ==
  \A r \in Requests :
    (Ended(r) /\ IsRead(r, "getSummary") /\ response[r].status = 200)
    => LET fx == response[r].data.totals.fx IN
       IF fx.error = Null
       THEN fx.available
       ELSE /\ ~fx.available
            /\ \A i \in 1..Len(fx.conversions) : fx.conversions[i].amount = Null

\* a failure result: success = false, rates = null and a cause made of a
\* non-empty fixed text and the interpolated value
IsFailure(x) ==
  /\ x.success = FALSE
  /\ x.rates = Null
  /\ x.error # Null
  /\ x.error.value[1] # ""

\* C15: fetchCnbRates does not raise: a call that ends while fetch() is
\* pending (status not ok, network error, abort by the timer) ends with a
\* failure result carrying a non-empty cause, as does every source
\* behaviour of these kinds; a call that ends while the body is read ends
\* with a failure result or a success result.
C15_FetchFailureIsAResult ==
  /\ [](\A b \in SourceBehaviours :
          (b.kind = "reject" \/ ~ok(b.status)) => IsFailure(fetchCnbRates(b)))
  /\ [][ \A c \in Calls :
           /\ (fpc[c] = "fetching" /\ fpc'[c] = "resolved")
              => IsFailure(fresult'[c])
           /\ (fpc[c] = "reading" /\ fpc'[c] = "resolved")
              => (fresult'[c].success \/ IsFailure(fresult'[c]))
       ]_vars

\* one call was aborted by the timer and another was refused with 503;
\* both resolved to failures that name the cause
C15_Witness ==
  \E c1, c2 \in Calls :
    /\ fpc[c1] = "resolved" /\ fpc[c2] = "resolved"
    /\ fresult[c1] = FetchCaughtFailure("This operation was aborted")
    /\ fresult[c2] = FetchStatusFailure(503)
    /\ IsFailure(fresult[c1]) /\ IsFailure(fresult[c2])

\* C16: a payload that cannot be parsed into rates is a failure: a call
\* that resolved to a success result has found at least one rate, so a
\* body without data rows does not resolve to a success result.
C16_UnparseablePayloadIsFailure ==
  \A c \in Calls :
    (fpc[c] = "resolved" /\ fresult[c].success)
    => \E k \in 1..Len(SUPPORTED_CURRENCIES) :
         fresult[c].rates[SUPPORTED_CURRENCIES[k]] # Null

\* C17: every call of fetchCnbRates eventually resolves, whether the source
\* stalls before the status arrives or while the body is being read.
C17_FetchEventuallyResolves ==
  \A c \in Calls : (fpc[c] \in {"fetching", "reading"}) ~> (fpc[c] = "resolved")

\* C18: after a call has fetched the rates successfully, no request reaches
\* the rate source during the freshness window that follows: a call made
\* later within the window is served from the cached table.
C18_NoOutboundRequestWhileFresh ==
  \A c1, c2 \in Calls :
    (/\ c1 # c2
     /\ fpc[c1] = "resolved" /\ fresult[c1].success
     /\ issuedAt[c2] # Null)
    => ~(/\ issuedAt[c2].value > fresult[c1].fetchedAt
         /\ issuedAt[c2].value < fresult[c1].fetchedAt + FRESHNESS_WINDOW_MS)

\* C19: convertFromCzk returns, for every amount and every rate table (null
\* included), one entry per supported currency in the order EUR, USD, PLN;
\* an entry carries round2(amount / rate) exactly when the currency's rate
\* is present and > 0 and is unavailable otherwise; fxAvailable is true
\* exactly when an entry carries an amount.  1000 CZK with no table gives
\* three unavailable entries and fxAvailable = false; with EUR 24.725, USD
\* null, PLN 5.5 it gives 40.44, unavailable, 181.82 and fxAvailable = true.
C19_ConvertPerCurrency ==
  conversion # Null
  => LET a == conversion.amountCzk
         rates == conversion.rates
         res == conversion.result
         codes == <<"EUR", "USD", "PLN">>
         usable(code) ==
           rates # Null /\ rates[code] # Null /\ rates[code].value > 0
     IN /\ Len(res.conversions) = 3
        /\ \A i \in 1..3 :
             /\ res.conversions[i].code = codes[i]
             /\ res.conversions[i].amount # Null <=> usable(codes[i])
             /\ usable(codes[i])
                => res.conversions[i].amount.value * 2 * rates[codes[i]].value
                     \in (2 * 1000 * a - rates[codes[i]].value + 1)
                         .. (2 * 1000 * a + rates[codes[i]].value)
        /\ res.fxAvailable <=> \E i \in 1..3 : res.conversions[i].amount # Null
        /\ (a = 100000 /\ rates = Null)
           => /\ \A i \in 1..3 : res.conversions[i].amount = Null
              /\ ~res.fxAvailable
        /\ (a = 100000 /\ rates = [EUR |-> Some(24725), USD |-> Null,
                                   PLN |-> Some(5500)])
           => /\ res.conversions[1].amount = Some(4044)
              /\ res.conversions[2].amount = Null
              /\ res.conversions[3].amount = Some(18182)
              /\ res.fxAvailable

\* 1000 CZK were converted with a table that has a zero rate and two absent
\* ones: nothing converted, not available
C19_Witness ==
  /\ conversion # Null
  /\ conversion.amountCzk = 100000
  /\ conversion.rates = [EUR |-> Some(0), USD |-> Null, PLN |-> Null]
  /\ ~conversion.result.fxAvailable
  /\ \A i \in 1..3 : conversion.result.conversions[i].amount = Null

\* C20: an unavailable conversion is never delivered as the amount 0: in a
\* create-order or get-order response and in a summary no entry has amount
\* 0 (the orders' totals are positive and the rates are such that a
\* computed conversion is at least 0.01).
C20_UnavailableIsNotZero ==
  \A r \in Requests :
    (Ended(r) /\ response[r].status \in {200, 201})
    => LET d == response[r].data IN
       /\ (IsCreate(r) \/ IsRead(r, "getOrder"))
          => \A i \in 1..Len(d.conversions) : d.conversions[i].amount # 0
       /\ IsRead(r, "getSummary")
          => \A i \in 1..Len(d.totals.fx.conversions) :
               d.totals.fx.conversions[i].amount # Some(0)

\* r's request was refused as input: validate threw, or the body was not
\* JSON
InputRefused(r) ==
  Threw(r, "ValidationError") \/ result[r] = BodySyntaxError

\* C21: every create-order request ends in exactly one of 201 created, 400
\* validation failure, 404 not found, 409 conflict or the generic 500; a
\* request with missing or malformed fields is answered 400 in its first
\* step and changes nothing in the store; the generic 500 is answered only
\* to a failure that is neither a refusal of the input, a missing product
\* nor insufficient stock.
C21_CreateEndsInTypedOutcome ==
  /\ [](\A r \in Requests :
          (Ended(r) /\ IsCreate(r))
          => /\ response[r].status \in {201, 400, 404, 409, 500}
             /\ response[r].status = 201 <=> result[r] = Created
             /\ response[r].status = 404 <=> Threw(r, "NotFoundError")
             /\ response[r].status = 409 <=> Threw(r, "ConflictError")
             /\ Threw(r, "ValidationError") => response[r].status = 400
             /\ response[r].status = 500
                => ~InputRefused(r) /\ StorageFailed(r))
  /\ [][ \A r \in Requests :
           (pc[r] = "idle" /\ pc'[r] # "idle" /\ input'[r].op = "createOrder"
            /\ "body" \in DOMAIN input'[r] /\ input'[r].body # Null)
           => /\ pc'[r] = "done"
              /\ response'[r].status = 400
              /\ <<products, orders, nextOrderId, rowLock>>' =
                   <<products, orders, nextOrderId, rowLock>>
       ]_vars

\* a number that is finite and not negative
NonNegative(x) == isFinite(x) /\ x.n >= 0

\* a rate that is not supplied or lies in [0, 1]
RateInUnitInterval(x) == x = Null \/ (NonNegative(x) /\ x.n <= x.d)

\* a finite amount that is zero
IsZero(x) == isFinite(x) /\ x.n = 0

\* x is a finite amount of whole hundredths
InHundredths(x) == isFinite(x) /\ (x.n * 100) % x.d = 0

\* C22: for a non-negative price, a whole non-negative quantity and a rate
\* in [0,1], calculateVatBreakdown returns subtotal = round2(price *
\* quantity), vatAmount = round2(subtotal * rate) of the rounded subtotal
\* and total = subtotal + vatAmount in hundredths, with rate 0.21 when none
\* is supplied; (1990, 2) gives 3980 / 835.80 / 4815.80 and (333.33, 3)
\* gives 999.99 / 210.00 / 1209.99.
C22_BreakdownRoundsEachStep ==
  (/\ vat # Null
   /\ NonNegative(vat.input.unitPriceCzk)
   /\ NonNegative(vat.input.quantity) /\ vat.input.quantity.d = 1
   /\ RateInUnitInterval(vat.input.vatRate))
  => LET price == vat.input.unitPriceCzk
         qty == vat.input.quantity.n
         res == vat.result
         rate == res.vatRate
         S == Hundredths(res.subtotalCzk)
         T == Hundredths(res.vatAmountCzk)
         Tot == Hundredths(res.totalCzk)
     IN /\ rate = (IF vat.input.vatRate = Null THEN Fin(21, 100) ELSE vat.input.vatRate)
        /\ InHundredths(res.subtotalCzk) /\ InHundredths(res.vatAmountCzk)
        /\ InHundredths(res.totalCzk)
        \* S is price * qty, in hundredths, rounded half up
        /\ (2 * S - 1) * price.d <= 200 * price.n * qty
        /\ 200 * price.n * qty < (2 * S + 1) * price.d
        \* T is S * rate rounded half up
        /\ (2 * T - 1) * rate.d <= 2 * S * rate.n
        /\ 2 * S * rate.n < (2 * T + 1) * rate.d
        /\ Tot = S + T
        /\ (price = Fin(1990, 1) /\ qty = 2 /\ rate = Fin(21, 100))
           => <<S, T, Tot>> = <<398000, 83580, 481580>>
        /\ (price = Fin(33333, 100) /\ qty = 3 /\ rate = Fin(21, 100))
           => <<S, T, Tot>> = <<99999, 21000, 120999>>

\* one unit at 0.125 with no rate supplied: 0.13 / 0.03 / 0.16, where
\* rounding once at the end would give a total of 0.15
C22_Witness ==
  /\ vat # Null
  /\ vat.input = [unitPriceCzk |-> Fin(125, 1000), quantity |-> Fin(1, 1),
                  vatRate |-> Null]
  /\ vat.result.subtotalCzk = Fin(13, 100)
  /\ vat.result.vatAmountCzk = Fin(3, 100)
  /\ vat.result.totalCzk = Fin(16, 100)

\* C23: whenever the unit price or the quantity is negative or not finite,
\* or the quantity is zero, calculateVatBreakdown returns subtotal 0,
\* vatAmount 0 and total 0.
C23_GarbageInZeroOut ==
  (/\ vat # Null
   /\ \/ ~NonNegative(vat.input.unitPriceCzk)
      \/ ~NonNegative(vat.input.quantity)
      \/ IsZero(vat.input.quantity))
  => /\ IsZero(vat.result.subtotalCzk)
     /\ IsZero(vat.result.vatAmountCzk)
     /\ IsZero(vat.result.totalCzk)

\* C24: for a non-negative price and quantity and a rate in [0,1], the
\* breakdown has subtotal + vatAmount = total, and the price before VAT of
\* the total, times (1 + rate), differs from the total by at most 0.01;
\* the price before VAT of 1210 at 0.21 is 1000.
C24_TotalRoundTrips ==
  (/\ vat # Null
   /\ NonNegative(vat.input.unitPriceCzk)
   /\ NonNegative(vat.input.quantity)
   /\ RateInUnitInterval(vat.input.vatRate))
  => LET res == vat.result
         rate == res.vatRate
         Tot == Hundredths(res.totalCzk)
     IN /\ InHundredths(res.totalCzk)
        /\ Hundredths(res.subtotalCzk) + Hundredths(res.vatAmountCzk) = Tot
        /\ vat.before # Null
           => /\ InHundredths(vat.before.value)
              /\ LET B == Hundredths(vat.before.value)
                     diff == B * (rate.d + rate.n) - Tot * rate.d
                 IN /\ diff <= rate.d /\ -diff <= rate.d
                    /\ (Tot = 121000 /\ rate = Fin(21, 100)) => B = 100000

\* the price before VAT of 4815.80 at 0.21 came out as 3980, the subtotal
\* the total was built from
C24_Witness ==
  /\ vat # Null
  /\ vat.input.quantity = Fin(2, 1)
  /\ vat.result.totalCzk = Fin(481580, 100)
  /\ vat.result.vatRate = Fin(21, 100)
  /\ vat.before = Some(Fin(398000, 100))

\* the rows of PayloadLines that carry a usable rate: the currency and the
\* rate per unit in thousandths (24.725, 2500 / 100 = 25, 5.5)
UsableRows ==
  (EurRow :> <<"EUR", 24725>>) @@ (EurRow100 :> <<"EUR", 25000>>) @@
  (PlnRow :> <<"PLN", 5500>>)

\* the positions after the first two lines whose row carries a rate of code
DataRowsOf(lines, code) ==
  {k \in 3..Len(lines) : lines[k] \in DOMAIN UsableRows /\ UsableRows[lines[k]][1] = code}

\* C25: parseRatesText stores, for each data row of EUR, USD or PLN whose
\* amount and rate are numbers and whose amount is not 0, rate / amount with
\* the decimal comma read as a point (1|EUR|24,725 gives 24.725, 100 units
\* at 2500 give 25 per unit), the last such row of a currency giving its
\* entry; a currency with no such row stays null.
C25_StoresRatePerUnit ==
  parsed # Null
  => LET lines == TrimLines(parsed.payload) IN
     \A code \in {"EUR", "USD", "PLN"} :
       LET rows == DataRowsOf(lines, code) IN
       IF rows = {} THEN parsed.rates[code] = Null
       ELSE LET last == CHOOSE k \in rows : \A j \in rows : j <= k
            IN parsed.rates[code] = Some(UsableRows[lines[last]][2])

\* a sheet with the euro quoted twice, per unit and then per 100 units,
\* and the zloty once: EUR is 25, PLN 5.5, USD stays null
C25_Witness ==
  /\ parsed # Null
  /\ parsed.payload = <<DateLine, EurRow, PlnRow, EurRow100>>
  /\ parsed.rates = [EUR |-> Some(25000), USD |-> Null, PLN |-> Some(5500)]

\* C26: the first two lines of the payload are never read as data, and a
\* row that is skipped (fewer than five fields, unrecognized code, amount
\* or rate not a number, amount 0) leaves every entry as it was before the
\* row, an entry set by an earlier row of the same currency included:
\* every entry that is set comes from a usable row after the first two
\* lines of the payload, and the rates after each such line are the rates
\* before it.
C26_SkippedRowsChangeNothing ==
  parsed # Null
  => LET payload == parsed.payload
         lines == TrimLines(payload)
         read == ReadLines(payload)
         after(k) == parseRatesText(SubSeq(read, 1, k))
     IN /\ \A code \in {"EUR", "USD", "PLN"} :
             parsed.rates[code] # Null
             => \E k \in 3..Len(payload) :
                  /\ payload[k] \in DOMAIN UsableRows
                  /\ UsableRows[payload[k]] = <<code, parsed.rates[code].value>>
        /\ \A k \in 1..Len(lines) :
             (k <= 2 \/ lines[k] \notin DOMAIN UsableRows)
             => after(k) = after(k - 1)
        /\ after(Len(lines)) = parsed.rates

\* the first two lines hold usable rows and set nothing; the euro is set
\* by the third line and kept although a euro row with an unreadable rate
\* follows
C26_Witness ==
  /\ parsed # Null
  /\ parsed.payload = <<EurRow100, PlnRow, EurRow, EurBadRate>>
  /\ parsed.rates = [EUR |-> Some(24725), USD |-> Null, PLN |-> Null]

\* C27: in create-order the rate fetch is made only after the transaction
\* has committed: a request that has not ended has made no fetch, and the
\* step that makes it starts from the committed order, changes neither the
\* orders nor the products, and ends the request with 201 and the created
\* order, whatever the fetch resolved to.
C27_FetchAfterCommitChangesNothing ==
  /\ [](\A r \in Requests :
          IsCreate(r)
          => /\ pc[r] # "done" => fetchCalls[r] = 0
             /\ (Ended(r) /\ result[r] = Created) => fetchCalls[r] = 1)
  /\ [][ \A r \in Requests :
           (fetchCalls'[r] # fetchCalls[r] /\ IsCreate(r))
           => /\ pc[r] = "committed"
              /\ createdOrder[r].row \in orders
              /\ \A p \in ProductIds : rowLock[p] # r
              /\ orders' = orders /\ products' = products
              /\ pc'[r] = "done"
              /\ result'[r] = Created
              /\ response'[r].status = 201
              /\ response'[r].data.id = createdOrder[r].row.id
              /\ response'[r].data.quantity = createdOrder[r].row.quantity
              /\ response'[r].data.totalPriceCzk =
                   Number(createdOrder[r].row.totalPriceCzk)
       ]_vars

\* a request was answered 201 with its order after a rate fetch that gave
\* no rate at all; the order is stored and the stock lowered
C27_Witness ==
  \E r \in Requests :
    /\ Ended(r) /\ IsCreate(r) /\ result[r] = Created
    /\ fetchCalls[r] = 1
    /\ \A i \in 1..Len(response[r].data.conversions) :
         response[r].data.conversions[i].amount = 0
    /\ \E o \in OrdersBy(r) :
         /\ o.id = response[r].data.id
         /\ products[o.productId].quantity <= InitStock - o.quantity

\* C28: get-order-summary loads the order, then fetches the rates, then
\* converts the stored total: for an id that names no order it answers
\* NotFound and makes no rate fetch; for a stored order it makes exactly
\* one fetch and its conversions are those of the stored total at the rates
\* the fetch returned.
C28_SummaryLoadsThenFetchesOnce ==
  [][ \A r \in Requests :
        (pc[r] = "idle" /\ pc'[r] = "done" /\ input'[r].op = "getSummary")
        => IF \E o \in orders : o.id = input'[r].id
           THEN LET o == CHOOSE x \in orders : x.id = input'[r].id IN
                /\ fetchCalls'[r] = fetchCalls[r] + 1
                /\ response'[r].status = 200
                /\ \E fx \in AllFetchResults :
                     LET c == convertFromCzk(Number(o.totalPriceCzk), fx.rates) IN
                     /\ response'[r].data.totals.fx.conversions = c.conversions
                     /\ response'[r].data.totals.fx.available = c.fxAvailable
                     /\ response'[r].data.totals.fx.error =
                          (IF fx.success THEN Null ELSE fx.error)
           ELSE /\ fetchCalls'[r] = fetchCalls[r]
                /\ result'[r] = NotFoundError
                /\ response'[r].status = 404
    ]_vars

\* a summary of a stored order was answered after one fetch, with the
\* stored total converted at the euro rate of the sheet
C28_Witness ==
  \E r \in Requests :
    /\ Ended(r) /\ IsRead(r, "getSummary")
    /\ response[r].status = 200
    /\ fetchCalls[r] = 1
    /\ \E o \in orders :
         /\ o.id = input[r].id
         /\ response[r].data.totals.fx.conversions[1].amount =
              Some(RoundDiv(Number(o.totalPriceCzk) * 1000, 24725))

\* C29: a create-order request runs its transaction at most once: a step
\* in which it fails (NotFound, Conflict, storage failure) ends it, a
\* request that has ended takes no further step, and a request has at most
\* one order; an order is added only for a request that has none.
C29_NoSecondAttempt ==
  /\ [](\A r \in Requests : Cardinality(OrdersBy(r)) <= 1)
  /\ [][ \A r \in Requests :
           /\ pc[r] = "done"
              => /\ pc'[r] = "done"
                 /\ result'[r] = result[r] /\ response'[r] = response[r]
                 /\ {o \in orders' : o.customer = r} = OrdersBy(r)
           /\ (result'[r] # result[r] /\ result'[r] # Created /\ result'[r] # Ok)
              => pc'[r] = "done"
           /\ {o \in orders' : o.customer = r} # OrdersBy(r)
              => /\ OrdersBy(r) = {}
                 /\ pc[r] = "decremented" /\ pc'[r] = "committed"
       ]_vars

\* one request failed in the store after its insert and was not run
\* again; the other created the only order there is
C29_Witness ==
  \E r1, r2 \in Requests :
    /\ Ended(r1) /\ IsCreate(r1) /\ StorageFailed(r1)
    /\ Ended(r2) /\ IsCreate(r2) /\ result[r2] = Created
    /\ nextOrderId = 3
    /\ OrdersBy(r1) = {}
    /\ Cardinality(orders) = 1
    /\ products[input[r2].productId].quantity = InitStock - input[r2].quantity

\* C30: a created order is returned with the product as read inside its
\* transaction: the product's quantity is the stock the order's decrement
\* was applied to, so it is at least the ordered quantity, and the
\* product's price is the order's unit price.
C30_SnapshotIsStockBeforeDecrement ==
  \A r \in Requests :
    /\ pc[r] \in {"decremented", "committed"}
       => createdOrder[r].product.quantity - input[r].quantity = updated[r].quantity
    /\ (Ended(r) /\ result[r] = Created)
       => LET d == response[r].data IN
          /\ \E o \in OrdersBy(r) : o.id = d.id
          /\ d.product.quantity >= d.quantity
          /\ d.product.priceCzk = d.unitPriceCzk
====
